---- MODULE Spec2Model ----
(***************************************************************************)
(* Model of mig/shared/pwhash.py: the password policy engine, the three    *)
(* credential check functions with their caller-supplied caches, the       *)
(* comparison loop of check_hash, the CSRF tokens and the random password  *)
(* generator.                                                              *)
(*                                                                         *)
(* Python strings are modelled as sequences of one-character strings, so   *)
(* that startswith, split and int are computed as the code computes them.  *)
(* Hex strings are sequences of hex digit values 0..15.                    *)
(***************************************************************************)
EXTENDS Integers, Sequences, FiniteSets, TLC

(***************************************************************************)
(* Bounds of the model.                                                    *)
(***************************************************************************)
\* longest password handed to the policy engine
MaxPwLen == 3
\* longest free-form suffix appended to a policy keyword when parsing
MaxSuffixLen == 5
\* number of distinct digests of the fingerprint abstraction (stands for 2^128)
Md5Classes == 3
\* largest tries argument of generate_random_password
MaxTries == 2
\* longest pair of keys run through the comparison loop
MaxKeyLen == 3

(***************************************************************************)
(* Generic sequence helpers.                                               *)
(***************************************************************************)
SeqsUpTo(S, n) == UNION {[1..k -> S] : k \in 0..n}

SeqsOfLen(S, n) == [1..n -> S]

RECURSIVE SumSeq(_)
SumSeq(s) == IF s = <<>> THEN 0 ELSE Head(s) + SumSeq(Tail(s))

InSeq(x, s) == \E i \in 1..Len(s) : s[i] = x

(***************************************************************************)
(* string module constants and the characters the model draws from.        *)
(***************************************************************************)
ascii_lowercase == {"a","b","c","d","e","f","g","h","i","j","k","l","m",
                    "n","o","p","q","r","s","t","u","v","w","x","y","z"}

ascii_uppercase == {"A","B","C","D","E","F","G","H","I","J","K","L","M",
                    "N","O","P","Q","R","S","T","U","V","W","X","Y","Z"}

digits == {"0","1","2","3","4","5","6","7","8","9"}

\* the extra symbols generate_random_password adds for four classes
\* (the non-ASCII pound sign is left out)
symbol_chars == {",",".",";",":","+","=","&","%","#","@","$","/","?","*"}

\* one representative character per class
PwAlphabet == {"a", "A", "1", "#"}

Passwords == SeqsUpTo(PwAlphabet, MaxPwLen)

(***************************************************************************)
(* Python str helpers used by password_requirements.                       *)
(***************************************************************************)
\* s.startswith(prefix)
StartsWith(s, prefix) ==
    /\ Len(s) >= Len(prefix)
    /\ SubSeq(s, 1, Len(prefix)) = prefix

\* index of the first sep in s, 0 when there is none
FirstIndex(s, sep) ==
    IF InSeq(sep, s)
    THEN CHOOSE i \in 1..Len(s) : s[i] = sep /\ \A j \in 1..(i-1) : s[j] # sep
    ELSE 0

\* s.split(sep, maxsplit)
RECURSIVE Split(_, _, _)
Split(s, sep, maxsplit) ==
    IF maxsplit = 0 \/ FirstIndex(s, sep) = 0
    THEN <<s>>
    ELSE <<SubSeq(s, 1, FirstIndex(s, sep) - 1)>>
         \o Split(SubSeq(s, FirstIndex(s, sep) + 1, Len(s)), sep, maxsplit - 1)

DigitValue(c) ==
    CASE c = "0" -> 0 [] c = "1" -> 1 [] c = "2" -> 2 [] c = "3" -> 3
      [] c = "4" -> 4 [] c = "5" -> 5 [] c = "6" -> 6 [] c = "7" -> 7
      [] c = "8" -> 8 [] c = "9" -> 9

DigitChar(d) == <<"0","1","2","3","4","5","6","7","8","9">>[d + 1]

\* does int(s) succeed: an optional sign followed by at least one digit
\* (surrounding blanks and '_' separators are outside the model's alphabet)
IsIntStr(s) ==
    LET body == IF s # <<>> /\ Head(s) \in {"-", "+"} THEN Tail(s) ELSE s
    IN  /\ body # <<>>
        /\ \A i \in 1..Len(body) : body[i] \in digits

RECURSIVE DecValue(_)
DecValue(s) ==
    IF s = <<>> THEN 0
    ELSE DecValue(SubSeq(s, 1, Len(s) - 1)) * 10 + DigitValue(s[Len(s)])

\* int(s) for a string IsIntStr accepts
IntOf(s) ==
    IF Head(s) = "-" THEN 0 - DecValue(Tail(s))
    ELSE IF Head(s) = "+" THEN DecValue(Tail(s))
    ELSE DecValue(s)

\* '%d' % n
RECURSIVE NatStr(_)
NatStr(n) == IF n < 10 THEN <<DigitChar(n)>>
             ELSE NatStr(n \div 10) \o <<DigitChar(n % 10)>>

IntStr(n) == IF n < 0 THEN <<"-">> \o NatStr(0 - n) ELSE NatStr(n)

(***************************************************************************)
(* Policy keywords of mig.shared.defaults, as the configuration grammar    *)
(* names them.                                                             *)
(***************************************************************************)
POLICY_NONE == <<"n","o","n","e">>
POLICY_WEAK == <<"w","e","a","k">>
POLICY_MEDIUM == <<"m","e","d","i","u","m">>
POLICY_HIGH == <<"h","i","g","h">>
POLICY_MODERN == <<"m","o","d","e","r","n">>
POLICY_CUSTOM == <<"c","u","s","t","o","m">>

\* a keyword no policy knows, and the empty (unset) policy
BogusWord == <<"b","o","g","u","s">>
EmptyStr == <<>>

(***************************************************************************)
(* password_requirements(site_policy): (min_len, min_classes, errors).     *)
(* The pair starts as (-1, 42) and is only replaced when a branch parses.  *)
(***************************************************************************)
Requirement(l, c, errs) == [min_len |-> l, min_classes |-> c, errors |-> errs]

\* branch "modern": _, min_len_str = site_policy.split(':', 1), then int()
ModernRequirement(parts) ==
    IF Len(parts) = 2 /\ IsIntStr(parts[2])
    THEN Requirement(IntOf(parts[2]), 1, <<>>)
    ELSE Requirement(-1, 42, <<"modern_invalid_format">>)

\* branch "custom": _, min_len_str, min_classes_str = site_policy.split(':', 2)
CustomRequirement(parts) ==
    IF Len(parts) = 3 /\ IsIntStr(parts[2]) /\ IsIntStr(parts[3])
    THEN Requirement(IntOf(parts[2]), IntOf(parts[3]), <<>>)
    ELSE Requirement(-1, 42, <<"custom_invalid_format">>)

password_requirements(site_policy) ==
    IF site_policy = POLICY_NONE THEN Requirement(0, 0, <<>>)
    ELSE IF site_policy = POLICY_WEAK THEN Requirement(6, 2, <<>>)
    ELSE IF site_policy = POLICY_MEDIUM THEN Requirement(8, 3, <<>>)
    ELSE IF site_policy = POLICY_HIGH THEN Requirement(10, 4, <<>>)
    ELSE IF StartsWith(site_policy, POLICY_MODERN)
         THEN ModernRequirement(Split(site_policy, ":", 1))
    ELSE IF StartsWith(site_policy, POLICY_CUSTOM)
         THEN CustomRequirement(Split(site_policy, ":", 2))
    ELSE Requirement(-1, 42, <<"unknown_keyword">>)

\* the policy string parse_password_policy picks (lines 358-361)
PolicyUsed(configuration, use_legacy) ==
    IF use_legacy THEN configuration.site_password_legacy_policy
    ELSE configuration.site_password_policy

PairOf(req) == [min_len |-> req.min_len, min_classes |-> req.min_classes]

\* parse_password_policy(configuration, use_legacy): the pair alone, the
\* errors only go to the log
parse_password_policy(configuration, use_legacy) ==
    PairOf(password_requirements(PolicyUsed(configuration, use_legacy)))

(***************************************************************************)
(* __assure_password_strength_helper                                       *)
(***************************************************************************)
\* the loop body without its "not yet in pw_classes" tests
ClassifyChar_NoDedup(pw_classes, i) ==
    IF i \in ascii_lowercase THEN Append(pw_classes, "lower")
    ELSE IF i \in ascii_uppercase THEN Append(pw_classes, "upper")
    ELSE IF i \in digits THEN Append(pw_classes, "digits")
    ELSE Append(pw_classes, "other")

\* the character class loop body: pw_classes after looking at character i
ClassifyChar(pw_classes, i) ==
    LET base_chars == ascii_lowercase \cup ascii_uppercase \cup digits
        fresh(cls) == IF InSeq(cls, pw_classes) THEN pw_classes
                      ELSE Append(pw_classes, cls)
    IN  IF i \notin base_chars /\ ~InSeq("other", pw_classes)
        THEN Append(pw_classes, "other")
        ELSE IF i \in ascii_lowercase THEN fresh("lower")
        ELSE IF i \in ascii_uppercase THEN fresh("upper")
        ELSE IF i \in digits THEN fresh("digits")
        ELSE pw_classes

\* for i in password: ... ; the list pw_classes after the loop
RECURSIVE ClassifyFrom(_, _)
ClassifyFrom(pw_classes, password) ==
    IF password = <<>> THEN pw_classes
    ELSE ClassifyFrom(ClassifyChar(pw_classes, Head(password)), Tail(password))

PwClasses(password) == ClassifyFrom(<<>>, password)

\* cracklib.VeryFascistCheck(password) of the external library, reduced to
\* its length threshold and its repeated-character rule: TRUE when refused
VeryFascistCheckRefuses(password, MIN_LENGTH) ==
    \/ Len(password) < MIN_LENGTH
    \/ Cardinality({password[k] : k \in 1..Len(password)}) < 2

\* exceptions and log lines carry a message: which policy, what failed, and
\* the number formatted into the text
Message(use_legacy, kind, n) ==
    [policy |-> IF use_legacy THEN "password legacy policy" ELSE "password policy",
     kind |-> kind, n |-> n]

NoMessage == [policy |-> "", kind |-> "", n |-> 0]

\* outcome of one helper run: exc is "none" (returned True), "ValueError"
\* or "Exception"; min_length is the value written to cracklib.MIN_LENGTH,
\* -1 when none was written
HelperOutcome(exc, msg, written) == [exc |-> exc, msg |-> msg, min_length |-> written]

\* the error lines parse_password_policy logs for the policy used
ErrorLog(use_legacy, errs) ==
    [k \in 1..Len(errs) |->
        [level |-> "error", msg |-> Message(use_legacy, errs[k], 0)]]

ParseErrorLog(configuration, use_legacy) ==
    ErrorLog(use_legacy,
             password_requirements(PolicyUsed(configuration, use_legacy)).errors)

\* the policy range check of line 381
PolicyOutOfRange(min_len, min_classes) == min_len < 0 \/ min_classes > 4

\* the checks with a missing cracklib module passed over in silence
PolicyChecks_SkipMissing(configuration, cracklib, password, use_legacy, min_len, min_classes) ==
    IF PolicyOutOfRange(min_len, min_classes)
    THEN HelperOutcome("Exception",
                       Message(use_legacy, "parse_failed", min_len), -1)
    ELSE IF Len(password) < min_len
    THEN HelperOutcome("ValueError",
                       Message(use_legacy, "too_short", min_len), -1)
    ELSE IF Len(PwClasses(password)) < min_classes
    THEN HelperOutcome("ValueError",
                       Message(use_legacy, "too_simple", min_classes), -1)
    ELSE IF configuration.site_password_cracklib /\ cracklib
    THEN IF VeryFascistCheckRefuses(password, min_len + min_classes)
         THEN HelperOutcome("ValueError",
                            Message(use_legacy, "cracklib_refused", 0),
                            min_len + min_classes)
         ELSE HelperOutcome("none", NoMessage, min_len + min_classes)
    ELSE HelperOutcome("none", NoMessage, -1)

\* lines 381-415, with the parsed pair at hand
PolicyChecks(configuration, cracklib, password, use_legacy, min_len, min_classes) ==
    IF PolicyOutOfRange(min_len, min_classes)
    THEN HelperOutcome("Exception",
                       Message(use_legacy, "parse_failed", min_len), -1)
    ELSE IF Len(password) < min_len
    THEN HelperOutcome("ValueError",
                       Message(use_legacy, "too_short", min_len), -1)
    ELSE IF Len(PwClasses(password)) < min_classes
    THEN HelperOutcome("ValueError",
                       Message(use_legacy, "too_simple", min_classes), -1)
    ELSE IF configuration.site_password_cracklib
    THEN IF cracklib
         THEN IF VeryFascistCheckRefuses(password, min_len + min_classes)
              THEN HelperOutcome("ValueError",
                                 Message(use_legacy, "cracklib_refused", 0),
                                 min_len + min_classes)
              ELSE HelperOutcome("none", NoMessage, min_len + min_classes)
         ELSE HelperOutcome("Exception",
                            Message(use_legacy, "cracklib_unavailable", 0), -1)
    ELSE HelperOutcome("none", NoMessage, -1)

RequirementChecks(configuration, cracklib, password, use_legacy, req) ==
    PolicyChecks(configuration, cracklib, password, use_legacy,
                 req.min_len, req.min_classes)

assure_password_strength_helper(configuration, cracklib, password, use_legacy) ==
    RequirementChecks(configuration, cracklib, password, use_legacy,
                      parse_password_policy(configuration, use_legacy))

(***************************************************************************)
(* assure_password_strength(configuration, password, allow_legacy)         *)
(* Result: exc/msg as raised to the caller ("none" = returned True),       *)
(* legacy_checked = the legacy helper ran, log = what went to the          *)
(* configuration's logger (info, warning and error lines), min_length =    *)
(* the last value written to cracklib.MIN_LENGTH (-1: none).               *)
(***************************************************************************)
AssureOutcome(exc, msg, legacy_checked, log, written) ==
    [exc |-> exc, msg |-> msg, legacy_checked |-> legacy_checked,
     log |-> log, min_length |-> written]

\* the branch condition without the caller's opt-in
LegacyFallbackAllowed_NoOptIn(site_legacy_policy, allow_legacy) ==
    site_legacy_policy # EmptyStr

\* the branch condition of line 436
LegacyFallbackAllowed(site_legacy_policy, allow_legacy) ==
    site_legacy_policy # EmptyStr /\ allow_legacy

\* the fallback taken without logging the primary rejection
PrimaryFallbackLog_Silent(err) == <<>>

\* the primary rejection as logged before the legacy check (line 437)
PrimaryFallbackLog(err) == <<[level |-> "info", msg |-> err]>>

\* the write to cracklib.MIN_LENGTH that stays after both helper runs
LastWrite(first, second) ==
    IF second.min_length # -1 THEN second.min_length ELSE first.min_length

WarningLog(err) == <<[level |-> "warning", msg |-> err]>>

\* lines 430-449 with the outcome of the primary helper run (first), of the
\* legacy helper run (second, only looked at when the fallback is taken) and
\* the parse errors logged by each
AssureDecide(fallback, first, second, log1, log2) ==
    IF first.exc = "none"
    THEN AssureOutcome("none", NoMessage, FALSE, log1, first.min_length)
    ELSE IF first.exc = "Exception"
    THEN AssureOutcome("Exception", first.msg, FALSE, log1, first.min_length)
    ELSE IF ~fallback
    THEN AssureOutcome("ValueError", first.msg, FALSE,
                       log1 \o WarningLog(first.msg), first.min_length)
    ELSE IF second.exc = "none"
    THEN AssureOutcome("none", NoMessage, TRUE,
                       log1 \o PrimaryFallbackLog(first.msg) \o log2,
                       LastWrite(first, second))
    ELSE IF second.exc = "ValueError"
    THEN AssureOutcome("ValueError", second.msg, TRUE,
                       log1 \o PrimaryFallbackLog(first.msg) \o log2
                            \o WarningLog(second.msg),
                       LastWrite(first, second))
    ELSE AssureOutcome("Exception", second.msg, TRUE,
                       log1 \o PrimaryFallbackLog(first.msg) \o log2,
                       LastWrite(first, second))

assure_password_strength(configuration, cracklib, password, allow_legacy) ==
    AssureDecide(
        LegacyFallbackAllowed(configuration.site_password_legacy_policy,
                              allow_legacy),
        assure_password_strength_helper(configuration, cracklib, password, FALSE),
        assure_password_strength_helper(configuration, cracklib, password, TRUE),
        ParseErrorLog(configuration, FALSE),
        ParseErrorLog(configuration, TRUE))

\* valid_login_password(configuration, password)
valid_login_password(configuration, cracklib, password) ==
    assure_password_strength(configuration, cracklib, password, TRUE).exc = "none"

(***************************************************************************)
(* generate_random_password: the character set and one draw.               *)
(***************************************************************************)
\* charset built from the class count of the policy (lines 503-509)
GenerateCharset(classes) ==
    ascii_lowercase
    \cup (IF classes > 1 THEN ascii_uppercase ELSE {})
    \cup (IF classes > 2 THEN digits ELSE {})
    \cup (IF classes > 3 THEN symbol_chars ELSE {})

\* generate_random_ascii(count, charset): every string the random source can
\* yield, restricted to the representative characters; range(count) is empty
\* for count <= 0
RandomAsciiDraws(count, charset) ==
    IF count <= 0 THEN {<<>>}
    ELSE SeqsOfLen(charset \cap PwAlphabet, count)

(***************************************************************************)
(* Bytes, hex strings and integers of arbitrary size.                      *)
(* A hex string is a sequence of digit values 0..15; an integer is the hex *)
(* string without leading zeros (zero is the empty sequence).              *)
(***************************************************************************)
\* ord(c) for the characters used in credentials
Ord(c) ==
    CASE c = "a" -> 97 [] c = "A" -> 65 [] c = "1" -> 49 [] c = "#" -> 35
      [] c = ":" -> 58 [] c = "r" -> 114 [] c = "u" -> 117
      [] c = "_" -> 95 [] c = "N" -> 78 [] c = "o" -> 111 [] c = "n" -> 110
      [] c = "e" -> 101 [] c = "b" -> 98 [] c = "2" -> 50
      [] c = "\t" -> 9

\* b16encode(s)
RECURSIVE b16encode(_)
b16encode(s) ==
    IF s = <<>> THEN <<>>
    ELSE <<Ord(Head(s)) \div 16, Ord(Head(s)) % 16>> \o b16encode(Tail(s))

RECURSIVE StripZeros(_)
StripZeros(h) ==
    IF h # <<>> /\ Head(h) = 0 THEN StripZeros(Tail(h)) ELSE h

\* int(h, 16) raises ValueError on the empty string
IntBase16Fails(h) == h = <<>>

IntBase16(h) == StripZeros(h)

RECURSIVE PadLeft(_, _)
PadLeft(n, len) == IF Len(n) >= len THEN n ELSE PadLeft(<<0>> \o n, len)

BitXor(x, y, k) == ((((x \div k) % 2) + ((y \div k) % 2)) % 2) * k

DigitXor(x, y) == BitXor(x, y, 1) + BitXor(x, y, 2) + BitXor(x, y, 4) + BitXor(x, y, 8)

Longest(a, b) == IF Len(a) >= Len(b) THEN Len(a) ELSE Len(b)

XorPadded(a, b) == [k \in 1..Len(a) |-> DigitXor(a[k], b[k])]

\* a ^ b
IntXor(a, b) ==
    StripZeros(XorPadded(PadLeft(a, Longest(a, b)), PadLeft(b, Longest(a, b))))

\* '{0:X}'.format(n)
FormatHex(n) == IF n = <<>> THEN <<0>> ELSE n

\* b64encode / b64decode: a reversible, injective recoding
b64encode(x) == [b64 |-> x]

b64decode(y) == y.b64

(***************************************************************************)
(* Keyed derivation (PBKDF2).                                              *)
(***************************************************************************)
SALT_LENGTH == 12
KEY_LENGTH == 24
COST_FACTOR == 10000
HASH_FUNCTION == "sha256"

\* pbkdf2_bin(data, salt, iterations, keylen, hashfunc): the derived key as a
\* symbolic value, its bytes determined by everything but keylen
pbkdf2_bin(data, salt, iterations, keylen, hashfunc) ==
    [derived |-> <<data, salt, iterations, hashfunc>>, keylen |-> keylen]

\* byte i of a derived key
KeyByte(key, i) == <<key.derived, i>>

\* make_hash(password) with the salt urandom produced
make_hash(password, salt) ==
    <<"PBKDF2", HASH_FUNCTION, COST_FACTOR, salt,
      b64encode(pbkdf2_bin(password, salt, COST_FACTOR, KEY_LENGTH, HASH_FUNCTION))>>

\* the module parameters of lines 76-82 as one record; they "only affect new
\* passwords"
DerivationParameters(hash_function, cost_factor, salt_length, key_length) ==
    [hash_function |-> hash_function, cost_factor |-> cost_factor,
     salt_length |-> salt_length, key_length |-> key_length]

\* b64encode(urandom(n)): a salt of n random bytes, one value per length
UrandomSalt(n) ==
    CASE n = SALT_LENGTH -> "salt1" [] n = 8 -> "salt8" [] n = 16 -> "salt16"

\* make_hash as it ran while the module parameters had the values of params
MakeHashUnder(params, password) ==
    <<"PBKDF2", params.hash_function, params.cost_factor,
      UrandomSalt(params.salt_length),
      b64encode(pbkdf2_bin(password, UrandomSalt(params.salt_length),
                           params.cost_factor, params.key_length,
                           params.hash_function))>>

\* hashlib.md5(s).hexdigest(): a digest with fewer values than inputs; the
\* sum makes it blind to the order of the characters
Md5(s) == SumSeq([k \in 1..Len(s) |-> Ord(s[k])]) % Md5Classes

(***************************************************************************)
(* Caches: Python dicts as functions on their keys.                        *)
(***************************************************************************)
\* cache.get(key, None) == value, for a value that is not None
CacheHolds(cache, key, value) == key \in DOMAIN cache /\ cache[key] = value

\* a put that starts the dict afresh
CachePut_Fresh(cache, key, value) == [k \in {key} |-> value]

\* cache[key] = value
CachePut(cache, key, value) ==
    [k \in DOMAIN cache \cup {key} |-> IF k = key THEN value ELSE cache[k]]

(***************************************************************************)
(* The check functions. Each returns                                       *)
(*   result: the boolean returned (FALSE when an exception left the call), *)
(*   exc: "none" or the exception that reached the caller,                 *)
(*   path: "cache_hit", "policy_reject", "compared" or "raised",           *)
(*   cache: the dict after the call,                                       *)
(*   min_length: the write to cracklib.MIN_LENGTH (-1: none).              *)
(* has_cache stands for isinstance(cache, dict).                           *)
(***************************************************************************)
CheckOutcome(result, exc, path, cache, written) ==
    [result |-> result, exc |-> exc, path |-> path, cache |-> cache,
     min_length |-> written]

\* the constant-time loop of lines 138-141 over zip(hash_a, hash_b)
KeysDiffer(hash_a, hash_b) ==
    \E i \in 1..(IF hash_a.keylen <= hash_b.keylen THEN hash_a.keylen
                 ELSE hash_b.keylen) :
        KeyByte(hash_a, i) # KeyByte(hash_b, i)

\* the key derived again with the module parameters in force instead of the
\* ones in the stored string
HashMatches_CurrentParameters(password, hashed) ==
    ~KeysDiffer(b64decode(hashed[5]),
                pbkdf2_bin(password, hashed[4], COST_FACTOR, KEY_LENGTH,
                           HASH_FUNCTION))

\* lines 130-141: split the stored string, derive again, compare
HashMatches(password, hashed) ==
    ~KeysDiffer(b64decode(hashed[5]),
                pbkdf2_bin(password, hashed[4], hashed[3],
                           b64decode(hashed[5]).keylen, hashed[2]))

\* the entry recorded before the comparison has confirmed the secret
CompareHash_RecordFirst(password, hashed, has_cache, cache, written) ==
    IF Len(hashed) # 5
    THEN CheckOutcome(FALSE, "ValueError", "raised", cache, written)
    ELSE IF hashed[1] # "PBKDF2"
    THEN CheckOutcome(FALSE, "AssertionError", "raised", cache, written)
    ELSE CheckOutcome(HashMatches(password, hashed), "none", "compared",
                      IF has_cache THEN CachePut(cache, Md5(password), hashed)
                      ELSE cache,
                      written)

\* lines 130-145, after the cache lookup and the policy check
CompareHash(password, hashed, has_cache, cache, written) ==
    IF Len(hashed) # 5
    THEN CheckOutcome(FALSE, "ValueError", "raised", cache, written)
    ELSE IF hashed[1] # "PBKDF2"
    THEN CheckOutcome(FALSE, "AssertionError", "raised", cache, written)
    ELSE IF HashMatches(password, hashed)
    THEN CheckOutcome(TRUE, "none", "compared",
                      IF has_cache THEN CachePut(cache, Md5(password), hashed)
                      ELSE cache,
                      written)
    ELSE CheckOutcome(FALSE, "none", "compared", cache, written)

\* the lookup by fingerprint alone, whatever the entry points at
HashCacheHit_KeyOnly(has_cache, cache, password, hashed) ==
    has_cache /\ Md5(password) \in DOMAIN cache

\* the cache lookup of lines 115-116
HashCacheHit(has_cache, cache, password, hashed) ==
    has_cache /\ CacheHolds(cache, Md5(password), hashed)

\* lines 119-129: with strict_policy any exception of the policy check
\* rejects; without it the policy is not looked at
HashPolicyRejects(strict_policy, verdict) ==
    strict_policy /\ verdict.exc # "none"

HashPolicyWrite(strict_policy, verdict) ==
    IF strict_policy THEN verdict.min_length ELSE -1

CheckHashSteps(password, hashed, has_cache, cache, strict_policy, verdict) ==
    IF HashCacheHit(has_cache, cache, password, hashed)
    THEN CheckOutcome(TRUE, "none", "cache_hit", cache, -1)
    ELSE IF HashPolicyRejects(strict_policy, verdict)
    THEN CheckOutcome(FALSE, "none", "policy_reject", cache,
                      HashPolicyWrite(strict_policy, verdict))
    ELSE CompareHash(password, hashed, has_cache, cache,
                     HashPolicyWrite(strict_policy, verdict))

check_hash(configuration, cracklib, password, hashed, has_cache, cache, strict_policy, allow_legacy) ==
    CheckHashSteps(password, hashed, has_cache, cache, strict_policy,
                   assure_password_strength(configuration, cracklib, password,
                                            allow_legacy))

\* the key length check_hash asks the derivation function for: len(hash_a)
RequestedKeyLength(hashed) ==
    IF Len(hashed) = 5 THEN b64decode(hashed[5]).keylen ELSE 0

\* pbkdf2_bin is imported from another module: the lengths of the key it may
\* hand back, the requested one or one byte less
DerivedKeyLengths(hashed) ==
    {RequestedKeyLength(hashed)}
    \cup (IF RequestedKeyLength(hashed) > 0
          THEN {RequestedKeyLength(hashed) - 1} ELSE {})

\* line 135: assert len(hash_a) == len(hash_b)
DerivedLengthAsserted(hashed, derived_len) ==
    RequestedKeyLength(hashed) = derived_len

\* lines 130-145 when the derivation function returned derived_len bytes
CompareHashDerived(password, hashed, derived_len, has_cache, cache, written) ==
    IF /\ Len(hashed) = 5
       /\ hashed[1] = "PBKDF2"
       /\ ~DerivedLengthAsserted(hashed, derived_len)
    THEN CheckOutcome(FALSE, "AssertionError", "raised", cache, written)
    ELSE CompareHash(password, hashed, has_cache, cache, written)

CheckHashDerivedSteps(password, hashed, derived_len, has_cache, cache, strict_policy, verdict) ==
    IF HashCacheHit(has_cache, cache, password, hashed)
    THEN CheckOutcome(TRUE, "none", "cache_hit", cache, -1)
    ELSE IF HashPolicyRejects(strict_policy, verdict)
    THEN CheckOutcome(FALSE, "none", "policy_reject", cache,
                      HashPolicyWrite(strict_policy, verdict))
    ELSE CompareHashDerived(password, hashed, derived_len, has_cache, cache,
                            HashPolicyWrite(strict_policy, verdict))

\* check_hash with the length of the key pbkdf2_bin returned in the call
CheckHashDerived(configuration, cracklib, password, hashed, derived_len, has_cache, cache, strict_policy, allow_legacy) ==
    CheckHashDerivedSteps(password, hashed, derived_len, has_cache, cache,
                          strict_policy,
                          assure_password_strength(configuration, cracklib,
                                                   password, allow_legacy))

(***************************************************************************)
(* RealmDigest and ReversibleScramble.                                     *)
(***************************************************************************)
\* ':'.join(parts)
JoinCreds(realm, username, password) ==
    realm \o <<":">> \o username \o <<":">> \o password

\* scramble_digest(salt, digest): '{0:X}'.format(int(salt, 16) ^ int(b16, 16))
scramble_digest(salt, digest) ==
    FormatHex(IntXor(IntBase16(salt), IntBase16(b16encode(digest))))

\* make_digest: 'DIGEST$custom$CONFSALT$%s', kept as its four fields
make_digest(realm, username, password, salt) ==
    <<"DIGEST", "custom", "CONFSALT",
      scramble_digest(salt, JoinCreds(realm, username, password))>>

\* int() raises in make_digest when the salt is the empty string
MakeDigestFails(salt) == IntBase16Fails(salt)

\* a policy failure rejecting whatever strict_policy says
DigestChecked_AlwaysStrict(realm, username, password, digest, salt, has_cache, cache, strict_policy, verdict) ==
    IF verdict.exc # "none"
    THEN CheckOutcome(FALSE, "none", "policy_reject", cache, verdict.min_length)
    ELSE CheckOutcome(make_digest(realm, username, password, salt) = digest,
                      "none", "compared", cache, verdict.min_length)

\* lines 198-209, after the cache lookup: a policy failure only rejects
\* under strict_policy
DigestChecked(realm, username, password, digest, salt, has_cache, cache, strict_policy, verdict) ==
    IF verdict.exc # "none" /\ strict_policy
    THEN CheckOutcome(FALSE, "none", "policy_reject", cache, verdict.min_length)
    ELSE IF MakeDigestFails(salt)
    THEN CheckOutcome(FALSE, "ValueError", "raised", cache, verdict.min_length)
    ELSE IF make_digest(realm, username, password, salt) = digest
    THEN CheckOutcome(TRUE, "none", "compared",
                      IF has_cache
                      THEN CachePut(cache,
                                    Md5(JoinCreds(realm, username, password)),
                                    digest)
                      ELSE cache,
                      verdict.min_length)
    ELSE CheckOutcome(FALSE, "none", "compared", cache, verdict.min_length)

\* the cache lookup of lines 193-194
DigestCacheHit(has_cache, cache, realm, username, password, digest) ==
    has_cache
    /\ CacheHolds(cache, Md5(JoinCreds(realm, username, password)), digest)

CheckDigestSteps(realm, username, password, digest, salt, has_cache, cache, strict_policy, verdict) ==
    IF DigestCacheHit(has_cache, cache, realm, username, password, digest)
    THEN CheckOutcome(TRUE, "none", "cache_hit", cache, -1)
    ELSE DigestChecked(realm, username, password, digest, salt, has_cache,
                       cache, strict_policy, verdict)

check_digest(configuration, cracklib, realm, username, password, digest, salt, has_cache, cache, strict_policy, allow_legacy) ==
    CheckDigestSteps(realm, username, password, digest, salt, has_cache, cache,
                     strict_policy,
                     assure_password_strength(configuration, cracklib, password,
                                              allow_legacy))

\* a falsy salt (None or ''): scramble_password falls back to base64
NoSalt == <<>>

\* int() raises in scramble_password for a salted empty password
ScrambleFails(salt, password) ==
    salt # NoSalt /\ IntBase16Fails(b16encode(password))

\* scramble_password(salt, password)
scramble_password(salt, password) ==
    IF salt = NoSalt THEN [kind |-> "b64", text |-> b64encode(password)]
    ELSE [kind |-> "hex",
          text |-> FormatHex(IntXor(IntBase16(salt),
                                    IntBase16(b16encode(password))))]

\* make_scramble(password, salt)
make_scramble(password, salt) == scramble_password(salt, password)

\* the characters of the secrets scrambled and unscrambled below
ScrambleChars == {"a", "1", "\t"}

\* chr(n), for the bytes of those characters
Chr(n) == CHOOSE c \in ScrambleChars : Ord(c) = n

\* b16decode raises on a string with an odd number of hex digits
b16decodeFails(h) == Len(h) % 2 = 1

\* b16decode(h): one byte per pair of hex digits
RECURSIVE b16decode(_)
b16decode(h) ==
    IF h = <<>> THEN <<>>
    ELSE <<Chr(h[1] * 16 + h[2])>> \o b16decode(SubSeq(h, 3, Len(h)))

\* b16_password of line 229: '{0:X}'.format(xor_int)
B16Password(salt, scrambled) ==
    FormatHex(IntXor(IntBase16(salt), IntBase16(scrambled)))

\* unscramble_password(salt, password): [exc, value]
unscramble_password(salt, password) ==
    IF salt = NoSalt THEN [exc |-> "none", value |-> b64decode(password.text)]
    ELSE IF IntBase16Fails(password.text)
    THEN [exc |-> "ValueError", value |-> <<>>]
    ELSE IF b16decodeFails(B16Password(salt, password.text))
    THEN [exc |-> "TypeError", value |-> <<>>]
    ELSE [exc |-> "none",
          value |-> b16decode(B16Password(salt, password.text))]

\* unscramble_password(salt, scramble_password(salt, password))
ScrambleRoundTrip(salt, password) ==
    IF ScrambleFails(salt, password) THEN [exc |-> "ValueError", value |-> <<>>]
    ELSE unscramble_password(salt, scramble_password(salt, password))

\* lines 259-270, after the cache lookup
ScrambleChecked(password, scrambled, salt, has_cache, cache, strict_policy, verdict) ==
    IF verdict.exc # "none" /\ strict_policy
    THEN CheckOutcome(FALSE, "none", "policy_reject", cache, verdict.min_length)
    ELSE IF ScrambleFails(salt, password)
    THEN CheckOutcome(FALSE, "ValueError", "raised", cache, verdict.min_length)
    ELSE IF make_scramble(password, salt) = scrambled
    THEN CheckOutcome(TRUE, "none", "compared",
                      IF has_cache THEN CachePut(cache, password, scrambled)
                      ELSE cache,
                      verdict.min_length)
    ELSE CheckOutcome(FALSE, "none", "compared", cache, verdict.min_length)

\* the cache lookup of lines 254-255: the key is the password itself
ScrambleCacheHit(has_cache, cache, password, scrambled) ==
    has_cache /\ CacheHolds(cache, password, scrambled)

CheckScrambleSteps(password, scrambled, salt, has_cache, cache, strict_policy, verdict) ==
    IF ScrambleCacheHit(has_cache, cache, password, scrambled)
    THEN CheckOutcome(TRUE, "none", "cache_hit", cache, -1)
    ELSE ScrambleChecked(password, scrambled, salt, has_cache, cache,
                         strict_policy, verdict)

check_scramble(configuration, cracklib, password, scrambled, salt, has_cache, cache, strict_policy, allow_legacy) ==
    CheckScrambleSteps(password, scrambled, salt, has_cache, cache,
                       strict_policy,
                       assure_password_strength(configuration, cracklib,
                                                password, allow_legacy))

(***************************************************************************)
(* CSRF tokens. The argument dict is a sequence of [key, vals] entries     *)
(* with distinct keys, in insertion order.                                 *)
(***************************************************************************)
\* '%s' % x for None and for a string
None == <<"None">>

FormatStr(x) == IF x = None THEN <<"N", "o", "n", "e">> ELSE x

\* decimal digits of a small natural number
RECURSIVE NatDigits(_)
NatDigits(n) == IF n < 10 THEN <<n>> ELSE NatDigits(n \div 10) \o <<n % 10>>

\* dec * m + carry on a number given by its decimal digits (zero is <<>>)
RECURSIVE MulAdd(_, _, _)
MulAdd(dec, m, carry) ==
    IF dec = <<>> THEN (IF carry = 0 THEN <<>> ELSE NatDigits(carry))
    ELSE MulAdd(SubSeq(dec, 1, Len(dec) - 1), m,
                (dec[Len(dec)] * m + carry) \div 10)
         \o <<(dec[Len(dec)] * m + carry) % 10>>

\* the decimal digits of an integer given by its hex digits
RECURSIVE HexToDec(_)
HexToDec(h) ==
    IF h = <<>> THEN <<>>
    ELSE MulAdd(HexToDec(SubSeq(h, 1, Len(h) - 1)), 16, h[Len(h)])

\* "%s" % n for an integer n >= 0
DecimalStr(n) == IF n = <<>> THEN <<0>> ELSE HexToDec(n)

\* hashlib.sha256(x).hexdigest(): a digest told apart by its input
sha256_hexdigest(x) == [sha256 |-> x]

\* "%s:%s:%s:%s" % (method, operation, client_id, limit)
CsrfMerged(method, operation, client_id, limit) ==
    FormatStr(method) \o <<":">> \o FormatStr(operation) \o <<":">>
    \o FormatStr(client_id) \o <<":">> \o FormatStr(limit)

\* xor_id of line 281: the string that is hashed
CsrfXorId(salt, method, operation, client_id, limit) ==
    DecimalStr(IntXor(IntBase16(salt),
                      IntBase16(b16encode(CsrfMerged(method, operation,
                                                     client_id, limit)))))

\* make_csrf_token(configuration, method, operation, client_id, limit) with
\* salt = configuration.site_digest_salt
make_csrf_token(salt, method, operation, client_id, limit) ==
    sha256_hexdigest(CsrfXorId(salt, method, operation, client_id, limit))

\* x < y for Python strings
RECURSIVE StrLess(_, _)
StrLess(x, y) ==
    IF x = <<>> THEN y # <<>>
    ELSE IF y = <<>> THEN FALSE
    ELSE IF Ord(Head(x)) # Ord(Head(y)) THEN Ord(Head(x)) < Ord(Head(y))
    ELSE StrLess(Tail(x), Tail(y))

RECURSIVE InsertSorted(_, _)
InsertSorted(k, sorted) ==
    IF sorted = <<>> THEN <<k>>
    ELSE IF StrLess(k, Head(sorted)) THEN <<k>> \o sorted
    ELSE <<Head(sorted)>> \o InsertSorted(k, Tail(sorted))

RECURSIVE SortStrings(_)
SortStrings(keys) ==
    IF keys = <<>> THEN <<>>
    ELSE InsertSorted(Head(keys), SortStrings(Tail(keys)))

\* list(args): the keys in insertion order
KeysOf(args) == [k \in 1..Len(args) |-> args[k].key]

\* the keys taken in the order they were inserted
SortedKeys_InsertionOrder(args) == KeysOf(args)

\* lines 299-302: sorted(list(args)), [] for an empty or missing dict
SortedKeys(args) == IF args = <<>> THEN <<>> ELSE SortStrings(KeysOf(args))

\* args[key]
ValuesOf(args, key) ==
    args[CHOOSE k \in 1..Len(args) : args[k].key = key].vals

\* for val in vals: csrf_op += '_%s' % val
RECURSIVE AppendValues(_, _)
AppendValues(csrf_op, vals) ==
    IF vals = <<>> THEN csrf_op
    ELSE AppendValues(csrf_op \o <<"_">> \o FormatStr(Head(vals)), Tail(vals))

\* the loop without the test for skip_fields
RECURSIVE PackKeys_NoSkip(_, _, _, _)
PackKeys_NoSkip(csrf_op, keys, args, skip_fields) ==
    IF keys = <<>> THEN csrf_op
    ELSE PackKeys_NoSkip(AppendValues(csrf_op \o <<"_">> \o FormatStr(Head(keys)),
                                      ValuesOf(args, Head(keys))),
                         Tail(keys), args, skip_fields)

\* the loop of lines 303-308 over the remaining sorted keys
RECURSIVE PackKeys(_, _, _, _)
PackKeys(csrf_op, keys, args, skip_fields) ==
    IF keys = <<>> THEN csrf_op
    ELSE IF InSeq(Head(keys), skip_fields)
    THEN PackKeys(csrf_op, Tail(keys), args, skip_fields)
    ELSE PackKeys(AppendValues(csrf_op \o <<"_">> \o FormatStr(Head(keys)),
                               ValuesOf(args, Head(keys))),
                  Tail(keys), args, skip_fields)

\* csrf_op of lines 298-308
CsrfOp(operation, args, skip_fields) ==
    PackKeys(FormatStr(operation), SortedKeys(args), args, skip_fields)

\* make_csrf_trust_token(configuration, method, operation, args, client_id,
\* limit, skip_fields)
make_csrf_trust_token(salt, method, operation, args, client_id, limit, skip_fields) ==
    make_csrf_token(salt, method, CsrfOp(operation, args, skip_fields),
                    client_id, limit)

\* the skipped keys remembered in the list object behind skip_fields=[]
SkipDefaultAfter_Remember(skip_default, args, skip_fields) ==
    skip_default \o SortedKeys(args)

\* the list object bound to the default skip_fields=[] after a call: the
\* function only reads skip_fields
SkipDefaultAfter(skip_default, args, skip_fields) == skip_default

(***************************************************************************)
(* State.                                                                  *)
(*   hash_cache, digest_cache, scramble_cache: the dicts callers hand to   *)
(*     check_hash, check_digest and check_scramble (key -> stored value).  *)
(*   cracklib_MIN_LENGTH: the module attribute cracklib.MIN_LENGTH, -1     *)
(*     while pwhash has not written it.                                    *)
(*   call: the call being served or just returned.                         *)
(*   service: what the process does: "webdavs", "davs_digest" and "openid" *)
(*     are login daemons that own one cache and check every login with     *)
(*     check_hash, check_digest or check_scramble; "policy" is a caller    *)
(*     of the policy engine alone; "cgi" issues CSRF tokens.               *)
(*   skip_fields_default: the list object bound to the default argument    *)
(*     skip_fields=[] of make_csrf_trust_token when the module is loaded.  *)
(*   first_token: the first token the process issued, with its inputs.     *)
(***************************************************************************)
VARIABLES service, hash_cache, digest_cache, scramble_cache,
          cracklib_MIN_LENGTH, call, skip_fields_default, first_token

vars == <<service, hash_cache, digest_cache, scramble_cache,
          cracklib_MIN_LENGTH, call, skip_fields_default, first_token>>

tokens == <<skip_fields_default, first_token>>

IdleCall == [op |-> "none", state |-> "idle"]

NoToken == [op |-> "none"]

caches == <<hash_cache, digest_cache, scramble_cache>>

EmptyCache == <<>>

Configuration(policy, legacy, use_cracklib) ==
    [site_password_policy |-> policy,
     site_password_legacy_policy |-> legacy,
     site_password_cracklib |-> use_cracklib]

\* the write to cracklib.MIN_LENGTH a call leaves behind
MinLengthAfter(written) ==
    IF written = -1 THEN cracklib_MIN_LENGTH ELSE written

(***************************************************************************)
(* Policy strings the model configures.                                    *)
(***************************************************************************)
SuffixAlphabet == {":", "1", "-", "x"}

PolicyWords == {POLICY_NONE, POLICY_WEAK, POLICY_MEDIUM, POLICY_HIGH,
                POLICY_MODERN, POLICY_CUSTOM, BogusWord, EmptyStr}

\* every word followed by every short suffix: the inputs of the parser
PolicyStrings ==
    {w \o x : w \in PolicyWords, x \in SeqsUpTo(SuffixAlphabet, MaxSuffixLen)}

ModernPolicy(n) == POLICY_MODERN \o <<":">> \o IntStr(n)

CustomPolicy(n, m) == POLICY_CUSTOM \o <<":">> \o IntStr(n) \o <<":">> \o IntStr(m)

\* strings that are not in the grammar none|weak|medium|high|modern:N|custom:N:M
MalformedPolicies ==
    {BogusWord, EmptyStr, POLICY_MODERN, POLICY_MODERN \o <<":">>,
     POLICY_CUSTOM \o <<":", "1">>, POLICY_CUSTOM \o <<":", "x", ":", "1">>,
     POLICY_MODERN \o <<"x", ":", "1">>}

\* the primary policies validation is run under: the named ones, every
\* modern:N and custom:N:M around the password lengths and class counts the
\* model can produce, and the malformed ones
PrimaryPolicies ==
    {POLICY_NONE, POLICY_WEAK, POLICY_MEDIUM, POLICY_HIGH}
    \cup {ModernPolicy(n) : n \in -1..(MaxPwLen + 1)}
    \cup {CustomPolicy(n, m) : n \in -1..(MaxPwLen + 1), m \in -1..5}
    \cup MalformedPolicies

\* configurations with a legacy policy and the cracklib switch
FallbackPrimaries == {CustomPolicy(2, 2), CustomPolicy(3, 3), POLICY_NONE,
                      BogusWord, POLICY_MODERN \o <<"x", ":", "1">>}

FallbackLegacies == {EmptyStr, ModernPolicy(1), CustomPolicy(2, 1),
                     CustomPolicy(3, 3), BogusWord}

PolicyConfigurations ==
    {Configuration(p, EmptyStr, FALSE) : p \in PrimaryPolicies}
    \cup {Configuration(p, l, c) : p \in FallbackPrimaries,
                                   l \in FallbackLegacies, c \in BOOLEAN}

(***************************************************************************)
(* Secrets, salts, stored values and configurations of the check calls.    *)
(***************************************************************************)
\* secrets presented at login: "a" is a one-class secret, "a1" and "1a"
\* have two classes and the same fingerprint
VerifyPasswords == {<<"a">>, <<"a", "1">>, <<"1", "a">>}

Realm == <<"r">>

Username == <<"u">>

\* the salts urandom gave make_hash
HashSalts == {"salt1"}

\* configuration.site_digest_salt values (hex strings)
DigestSalts == {<<1, 15>>, <<2, 10>>}

\* the salt argument of check_scramble: none, or a site salt
ScrambleSalts == {NoSalt, <<1, 15>>}

\* stored PBKDF2 strings split at '$': the hashes of the secrets, one string
\* with too few fields and one with a foreign algorithm tag
StoredHashes ==
    {make_hash(p, x) : p \in VerifyPasswords, x \in HashSalts}
    \cup {<<"PBKDF2", HASH_FUNCTION>>,
          <<"MD5", HASH_FUNCTION, COST_FACTOR, "salt1",
            b64encode(pbkdf2_bin(<<"a">>, "salt1", COST_FACTOR, KEY_LENGTH,
                                 HASH_FUNCTION))>>}

StoredDigests ==
    {make_digest(Realm, Username, p, x) : p \in VerifyPasswords, x \in DigestSalts}

StoredScrambles ==
    {make_scramble(p, x) : p \in VerifyPasswords, x \in ScrambleSalts}

\* the configurations a daemon runs under: a two-class policy without and
\* with a lenient legacy policy, and no policy at all
VerifyConfigurations ==
    {Configuration(CustomPolicy(2, 2), EmptyStr, FALSE),
     Configuration(CustomPolicy(2, 2), ModernPolicy(1), FALSE),
     Configuration(POLICY_NONE, EmptyStr, FALSE)}

\* what the caller sees of an outcome
Seen(out) == [result |-> out.result, exc |-> out.exc, path |-> out.path]

(***************************************************************************)
(* SpecParse: password_requirements applied to every policy string.        *)
(***************************************************************************)
NoReturn == [exc |-> "pending"]

InitParse ==
    /\ service = "policy"
    /\ hash_cache = EmptyCache
    /\ digest_cache = EmptyCache
    /\ scramble_cache = EmptyCache
    /\ cracklib_MIN_LENGTH = -1
    /\ skip_fields_default = <<>>
    /\ first_token = NoToken
    /\ \E p \in PolicyStrings :
          call = [op |-> "password_requirements", state |-> "pending",
                  args |-> [site_policy |-> p], ret |-> NoReturn]

ParseReturn ==
    /\ call.op = "password_requirements"
    /\ call.state = "pending"
    /\ call' = [call EXCEPT !.state = "returned",
                            !.ret = password_requirements(call.args.site_policy)]
    /\ UNCHANGED <<tokens, service, caches, cracklib_MIN_LENGTH>>

NextParse == ParseReturn

SpecParse == InitParse /\ [][NextParse]_vars

(***************************************************************************)
(* SpecPolicy: assure_password_strength and generate_random_password under *)
(* every configuration, password and flag.                                 *)
(***************************************************************************)
\* cracklib is the module imported at start-up (TRUE) or None (FALSE); it is
\* only looked at when the configuration asks for it
Environments ==
    {e \in [configuration : PolicyConfigurations, cracklib : BOOLEAN] :
        e.cracklib \/ e.configuration.site_password_cracklib}

\* the generator is called under the policies whose draws are passwords of
\* the model (at most MaxPwLen characters)
GenerateEnvironments ==
    {e \in Environments :
        password_requirements(e.configuration.site_password_policy).min_len
            <= MaxPwLen}

InitAssure ==
    \E e \in Environments, pw \in Passwords, al \in BOOLEAN :
        call = [op |-> "assure_password_strength", state |-> "pending",
                args |-> [configuration |-> e.configuration,
                          cracklib |-> e.cracklib,
                          password |-> pw, allow_legacy |-> al],
                ret |-> NoReturn]

InitGenerate ==
    \E e \in GenerateEnvironments, t \in 0..MaxTries :
        call = [op |-> "generate_random_password", state |-> "pending",
                args |-> [configuration |-> e.configuration,
                          cracklib |-> e.cracklib, tries |-> t],
                i |-> 0, password |-> <<>>, ret |-> NoReturn]

InitValidLogin ==
    \E e \in Environments, pw \in Passwords :
        call = [op |-> "valid_login_password", state |-> "pending",
                args |-> [configuration |-> e.configuration,
                          cracklib |-> e.cracklib, password |-> pw],
                ret |-> NoReturn]

\* the module parameters in force, and earlier values of them
CurrentParameters ==
    DerivationParameters(HASH_FUNCTION, COST_FACTOR, SALT_LENGTH, KEY_LENGTH)

OldParameters ==
    {DerivationParameters("sha1", 1000, 8, 20),
     DerivationParameters(HASH_FUNCTION, COST_FACTOR, SALT_LENGTH, 16),
     DerivationParameters(HASH_FUNCTION, 5000, 16, KEY_LENGTH)}

\* stored strings handed to check_hash without a cache: the ones of the
\* daemons, hashes made under the current and under earlier parameters, and
\* a string with one field too many
ColdStoredHashes ==
    StoredHashes
    \cup {MakeHashUnder(q, p) : q \in OldParameters, p \in VerifyPasswords}
    \cup {make_hash(<<"a">>, "salt1") \o <<"extra">>}

\* the configurations of the calls without a cache: those of the daemons,
\* and ones that ask for cracklib
ColdConfigurations ==
    VerifyConfigurations
    \cup {Configuration(p, l, TRUE) : p \in {CustomPolicy(2, 2), POLICY_NONE},
                                      l \in {EmptyStr, ModernPolicy(1)}}

ColdEnvironments ==
    {e \in [configuration : ColdConfigurations, cracklib : BOOLEAN] :
        e.cracklib \/ e.configuration.site_password_cracklib}

ColdArgs(e, pw, stored, salt, derived_len, strict_policy, allow_legacy) ==
    [configuration |-> e.configuration, cracklib |-> e.cracklib,
     password |-> pw, stored |-> stored, salt |-> salt,
     derived_len |-> derived_len, has_cache |-> FALSE,
     strict_policy |-> strict_policy, allow_legacy |-> allow_legacy]

\* check_hash, check_digest and check_scramble called with hash_cache=None
InitColdCheck ==
    \E e \in ColdEnvironments, pw \in VerifyPasswords,
       strict_policy \in BOOLEAN, allow_legacy \in BOOLEAN :
        \/ \E hashed \in ColdStoredHashes :
             \E derived_len \in DerivedKeyLengths(hashed) :
               call = [op |-> "check_hash", state |-> "pending",
                       args |-> ColdArgs(e, pw, hashed, NoSalt, derived_len,
                                         strict_policy, allow_legacy),
                       pre |-> EmptyCache, ret |-> NoReturn]
        \/ \E digest \in StoredDigests, salt \in DigestSalts :
               call = [op |-> "check_digest", state |-> "pending",
                       args |-> ColdArgs(e, pw, digest, salt, 0,
                                         strict_policy, allow_legacy),
                       pre |-> EmptyCache, ret |-> NoReturn]
        \/ \E scrambled \in StoredScrambles, salt \in ScrambleSalts :
               call = [op |-> "check_scramble", state |-> "pending",
                       args |-> ColdArgs(e, pw, scrambled, salt, 0,
                                         strict_policy, allow_legacy),
                       pre |-> EmptyCache, ret |-> NoReturn]

InitPolicy ==
    /\ service = "policy"
    /\ hash_cache = EmptyCache
    /\ digest_cache = EmptyCache
    /\ scramble_cache = EmptyCache
    /\ cracklib_MIN_LENGTH = -1
    /\ skip_fields_default = <<>>
    /\ first_token = NoToken
    /\ (InitAssure \/ InitGenerate \/ InitValidLogin \/ InitColdCheck)

AssureReturn ==
    /\ call.op = "assure_password_strength"
    /\ call.state = "pending"
    /\ LET out == assure_password_strength(call.args.configuration,
                                           call.args.cracklib,
                                           call.args.password,
                                           call.args.allow_legacy)
       IN  /\ call' = [call EXCEPT !.state = "returned", !.ret = out]
           /\ cracklib_MIN_LENGTH' = MinLengthAfter(out.min_length)
    /\ UNCHANGED <<tokens, service, caches>>

\* a loop counter that does not move
RangeNext_Stuck(i) == i

\* for i in range(tries): the counter after one pass
RangeNext(i) == i + 1

\* one pass of the for loop: draw, validate, return or retry; an Exception
\* that is no ValueError leaves the loop and reaches the caller
GenerateAttempt ==
    /\ call.op = "generate_random_password"
    /\ call.state = "pending"
    /\ call.i < call.args.tries
    /\ LET req == parse_password_policy(call.args.configuration, FALSE)
       IN  \E password \in RandomAsciiDraws(req.min_len,
                                            GenerateCharset(req.min_classes)) :
             LET out == assure_password_strength(call.args.configuration,
                                                 call.args.cracklib,
                                                 password, FALSE)
             IN  /\ call' = [call EXCEPT
                       !.i = RangeNext(@),
                       !.password = password,
                       !.state = IF out.exc = "ValueError" THEN "pending"
                                 ELSE "returned",
                       !.ret = IF out.exc = "ValueError" THEN NoReturn
                               ELSE [exc |-> out.exc, msg |-> out.msg]]
                 /\ cracklib_MIN_LENGTH' = MinLengthAfter(out.min_length)
    /\ UNCHANGED <<tokens, service, caches>>

\* the last draw handed out although it was refused
GenerateExhausted_ReturnLast(password) == [exc |-> "none", msg |-> NoMessage]

\* lines 520-521, after the loop: whatever was drawn last, raise ValueError
GenerateExhausted(password) ==
    [exc |-> "ValueError",
     msg |-> [policy |-> "", kind |-> "failed_to_generate", n |-> 0]]

\* the loop ran out of tries: raise ValueError
GenerateGiveUp ==
    /\ call.op = "generate_random_password"
    /\ call.state = "pending"
    /\ call.i >= call.args.tries
    /\ call' = [call EXCEPT !.state = "returned",
                            !.ret = GenerateExhausted(call.password)]
    /\ UNCHANGED <<tokens, service, caches, cracklib_MIN_LENGTH>>

\* valid_login_password: any exception of the policy check becomes False
ValidLoginReturn ==
    /\ call.op = "valid_login_password"
    /\ call.state = "pending"
    /\ LET out == assure_password_strength(call.args.configuration,
                                           call.args.cracklib,
                                           call.args.password, TRUE)
       IN  /\ call' = [call EXCEPT
                 !.state = "returned",
                 !.ret = [result |-> valid_login_password(
                                         call.args.configuration,
                                         call.args.cracklib, call.args.password),
                          exc |-> "none"]]
           /\ cracklib_MIN_LENGTH' = MinLengthAfter(out.min_length)
    /\ UNCHANGED <<tokens, service, caches>>

\* a check function called without a cache: nothing is looked up or recorded
ColdCheckHash ==
    /\ call.op = "check_hash"
    /\ call.state = "pending"
    /\ LET out == CheckHashDerived(call.args.configuration, call.args.cracklib,
                                   call.args.password, call.args.stored,
                                   call.args.derived_len, FALSE, EmptyCache,
                                   call.args.strict_policy,
                                   call.args.allow_legacy)
       IN  /\ call' = [call EXCEPT !.state = "returned", !.ret = Seen(out)]
           /\ cracklib_MIN_LENGTH' = MinLengthAfter(out.min_length)
    /\ UNCHANGED <<tokens, service, caches>>

ColdCheckDigest ==
    /\ call.op = "check_digest"
    /\ call.state = "pending"
    /\ LET out == check_digest(call.args.configuration, call.args.cracklib,
                               Realm, Username, call.args.password,
                               call.args.stored, call.args.salt, FALSE,
                               EmptyCache, call.args.strict_policy,
                               call.args.allow_legacy)
       IN  /\ call' = [call EXCEPT !.state = "returned", !.ret = Seen(out)]
           /\ cracklib_MIN_LENGTH' = MinLengthAfter(out.min_length)
    /\ UNCHANGED <<tokens, service, caches>>

ColdCheckScramble ==
    /\ call.op = "check_scramble"
    /\ call.state = "pending"
    /\ LET out == check_scramble(call.args.configuration, call.args.cracklib,
                                 call.args.password, call.args.stored,
                                 call.args.salt, FALSE, EmptyCache,
                                 call.args.strict_policy,
                                 call.args.allow_legacy)
       IN  /\ call' = [call EXCEPT !.state = "returned", !.ret = Seen(out)]
           /\ cracklib_MIN_LENGTH' = MinLengthAfter(out.min_length)
    /\ UNCHANGED <<tokens, service, caches>>

NextPolicy ==
    \/ AssureReturn
    \/ GenerateAttempt
    \/ GenerateGiveUp
    \/ ValidLoginReturn
    \/ ColdCheckHash
    \/ ColdCheckDigest
    \/ ColdCheckScramble

SpecPolicy == InitPolicy /\ [][NextPolicy]_vars

(***************************************************************************)
(* SpecGenerate: generate_random_password run to its end. The call is      *)
(* synchronous, so a pass of the loop that can be made is made.            *)
(***************************************************************************)
\* the default of the tries argument
DefaultTries == 42

\* policies of the generator: one no draw can satisfy (more classes than
\* characters), ones some or all draws satisfy, and an unusable one
GeneratePolicies ==
    {CustomPolicy(1, 2), CustomPolicy(2, 2), CustomPolicy(2, 3),
     ModernPolicy(1), POLICY_NONE, BogusWord}

InitGenerateAlone ==
    /\ service = "policy"
    /\ hash_cache = EmptyCache
    /\ digest_cache = EmptyCache
    /\ scramble_cache = EmptyCache
    /\ cracklib_MIN_LENGTH = -1
    /\ skip_fields_default = <<>>
    /\ first_token = NoToken
    /\ \E p \in GeneratePolicies, use_cracklib \in BOOLEAN, cracklib \in BOOLEAN,
          t \in (0..MaxTries) \cup {DefaultTries} :
          call = [op |-> "generate_random_password", state |-> "pending",
                  args |-> [configuration |-> Configuration(p, EmptyStr,
                                                            use_cracklib),
                            cracklib |-> cracklib, tries |-> t],
                  i |-> 0, password |-> <<>>, ret |-> NoReturn]

NextGenerate == GenerateAttempt \/ GenerateGiveUp

\* the loop of lines 510-519 still has a pass to make
GenerateLooping ==
    /\ call.op = "generate_random_password"
    /\ call.state = "pending"
    /\ call.i < call.args.tries

\* A running call is never suspended for ever: the raise after the loop is
\* weakly fair, and so is the loop body.  The body is enabled exactly when
\* the loop guard holds (a draw always exists), so its weak fairness is
\* written out with the guard in place of ENABLED.
SpecGenerate ==
    /\ InitGenerateAlone
    /\ [][NextGenerate]_vars
    /\ WF_vars(GenerateGiveUp)
    /\ ([]<>~GenerateLooping \/ []<><<TRUE>>_vars)

(***************************************************************************)
(* SpecScramble: a secret scrambled and unscrambled again with one salt.    *)
(***************************************************************************)
ScrambleSecrets == SeqsUpTo(ScrambleChars, MaxPwLen)

\* no salt, salts shorter and longer than the secret's hex form
RoundTripSalts == {NoSalt, <<1, 15>>, <<6, 15>>, <<2, 10, 0, 7, 11>>}

InitScramble ==
    /\ service = "scramble"
    /\ hash_cache = EmptyCache
    /\ digest_cache = EmptyCache
    /\ scramble_cache = EmptyCache
    /\ cracklib_MIN_LENGTH = -1
    /\ skip_fields_default = <<>>
    /\ first_token = NoToken
    /\ \E salt \in RoundTripSalts, password \in ScrambleSecrets :
          call = [op |-> "unscramble_password", state |-> "pending",
                  args |-> [salt |-> salt, password |-> password],
                  ret |-> NoReturn]

UnscrambleReturn ==
    /\ call.op = "unscramble_password"
    /\ call.state = "pending"
    /\ call' = [call EXCEPT
                  !.state = "returned",
                  !.ret = ScrambleRoundTrip(call.args.salt, call.args.password)]
    /\ UNCHANGED <<tokens, service, caches, cracklib_MIN_LENGTH>>

SpecScramble == InitScramble /\ [][UnscrambleReturn]_vars

(***************************************************************************)
(* SpecThreads: assure_password_strength called from two threads of one    *)
(* process (the daemons serve each login in a thread of its own). What a   *)
(* thread does between two accesses to the module attribute                *)
(* cracklib.MIN_LENGTH is one step: the checks up to the assignment of     *)
(* line 407, then the VeryFascistCheck call of line 410, which reads it.    *)
(***************************************************************************)
Threads == {1, 2}

ThreadPolicies == {CustomPolicy(1, 1), CustomPolicy(3, 1)}

ThreadLegacyPolicies == {EmptyStr, CustomPolicy(1, 1)}

ThreadPasswords == {<<"a", "1">>, <<"a", "1", "A">>}

ThreadCalls ==
    [pc : {"helper"},
     configuration : {Configuration(p, l, c) : p \in ThreadPolicies, l \in ThreadLegacyPolicies, c \in BOOLEAN},
     password : ThreadPasswords,
     allow_legacy : BOOLEAN,
     use_legacy : {FALSE},
     ret : {NoReturn}]

InitThreads ==
    /\ service = "threads"
    /\ hash_cache = EmptyCache
    /\ digest_cache = EmptyCache
    /\ scramble_cache = EmptyCache
    /\ cracklib_MIN_LENGTH = -1
    /\ skip_fields_default = <<>>
    /\ first_token = NoToken
    /\ \E threads \in [Threads -> ThreadCalls] :
          call = [op |-> "assure_password_strength", state |-> "pending",
                  threads |-> threads]

\* lines 380-400 and the test of line 402: the helper gets to the cracklib
\* call (the module is installed in this process)
ReachesCracklib(th, req) ==
    /\ th.configuration.site_password_cracklib
    /\ ~PolicyOutOfRange(req.min_len, req.min_classes)
    /\ Len(th.password) >= req.min_len
    /\ Len(PwClasses(th.password)) >= req.min_classes

\* lines 429-449 once a helper run ended with outcome h: the call returns,
\* raises, or goes on to the legacy helper run
AfterHelper(th, h) ==
    IF /\ h.exc = "ValueError"
       /\ ~th.use_legacy
       /\ LegacyFallbackAllowed(th.configuration.site_password_legacy_policy,
                                th.allow_legacy)
    THEN [th EXCEPT !.use_legacy = TRUE, !.pc = "helper"]
    ELSE [th EXCEPT !.pc = "returned", !.ret = [exc |-> h.exc, msg |-> h.msg]]

\* lines 380-407 of one helper run of thread t, up to the write
ThreadHelper(t) ==
    /\ call.op = "assure_password_strength"
    /\ t \in DOMAIN call.threads
    /\ call.threads[t].pc = "helper"
    /\ LET th == call.threads[t]
           req == parse_password_policy(th.configuration, th.use_legacy)
       IN  IF ReachesCracklib(th, req)
           THEN /\ cracklib_MIN_LENGTH' = req.min_len + req.min_classes
                /\ call' = [call EXCEPT !.threads[t].pc = "check"]
           ELSE /\ cracklib_MIN_LENGTH' = cracklib_MIN_LENGTH
                /\ call' = [call EXCEPT !.threads[t] =
                               AfterHelper(th, RequirementChecks(th.configuration, TRUE, th.password, th.use_legacy, req))]
    /\ UNCHANGED <<tokens, service, caches>>

\* lines 408-412: VeryFascistCheck with the threshold the module holds now
ThreadCheck(t) ==
    /\ call.op = "assure_password_strength"
    /\ t \in DOMAIN call.threads
    /\ call.threads[t].pc = "check"
    /\ LET th == call.threads[t]
           h == IF VeryFascistCheckRefuses(th.password, cracklib_MIN_LENGTH)
                THEN HelperOutcome("ValueError", Message(th.use_legacy, "cracklib_refused", 0), cracklib_MIN_LENGTH)
                ELSE HelperOutcome("none", NoMessage, cracklib_MIN_LENGTH)
       IN  call' = [call EXCEPT !.threads[t] = AfterHelper(th, h)]
    /\ UNCHANGED <<tokens, service, caches, cracklib_MIN_LENGTH>>

NextThreads == \E t \in Threads : ThreadHelper(t) \/ ThreadCheck(t)

SpecThreads == InitThreads /\ [][NextThreads]_vars

(***************************************************************************)
(* SpecCache: check_hash called from two threads of a daemon that share    *)
(* one hash cache. A step is what a thread does up to and including one    *)
(* cache operation: the get of lines 114-118, then the policy check, the   *)
(* derivation and the put of lines 119-145.                                 *)
(***************************************************************************)
CacheConfiguration == Configuration(CustomPolicy(2, 2), EmptyStr, FALSE)

IdleThread ==
    [pc |-> "idle", password |-> <<>>, stored |-> <<>>,
     strict_policy |-> FALSE, ret |-> NoReturn]

InitCache ==
    /\ service = "webdavs"
    /\ hash_cache = EmptyCache
    /\ digest_cache = EmptyCache
    /\ scramble_cache = EmptyCache
    /\ cracklib_MIN_LENGTH = -1
    /\ skip_fields_default = <<>>
    /\ first_token = NoToken
    /\ call = [op |-> "check_hash", state |-> "pending",
               threads |-> [t \in Threads |-> IdleThread]]

\* lines 112-118: a call starts and looks its fingerprint up (one get)
ThreadLookup(t) ==
    /\ call.op = "check_hash"
    /\ call.threads[t].pc = "idle"
    /\ \E pw \in VerifyPasswords, hashed \in StoredHashes, strict_policy \in BOOLEAN :
          call' = [call EXCEPT !.threads[t] =
                     [pc |-> IF HashCacheHit(TRUE, hash_cache, pw, hashed)
                             THEN "returned" ELSE "missed",
                      password |-> pw, stored |-> hashed,
                      strict_policy |-> strict_policy,
                      ret |-> IF HashCacheHit(TRUE, hash_cache, pw, hashed)
                              THEN Seen(CheckOutcome(TRUE, "none", "cache_hit", hash_cache, -1))
                              ELSE NoReturn]]
    /\ UNCHANGED <<tokens, service, caches, cracklib_MIN_LENGTH>>

\* lines 119-145 after a miss, on the cache as it is now
ThreadMissed(th, cache) ==
    IF HashPolicyRejects(th.strict_policy, assure_password_strength(CacheConfiguration, TRUE, th.password, FALSE))
    THEN CheckOutcome(FALSE, "none", "policy_reject", cache, -1)
    ELSE CompareHash(th.password, th.stored, TRUE, cache, -1)

\* lines 119-145: policy check, derivation, comparison and, on a match,
\* the put into the shared cache
ThreadVerify(t) ==
    /\ call.op = "check_hash"
    /\ call.threads[t].pc = "missed"
    /\ call' = [call EXCEPT
                  !.threads[t].pc = "returned",
                  !.threads[t].ret = Seen(ThreadMissed(call.threads[t], hash_cache))]
    /\ hash_cache' = ThreadMissed(call.threads[t], hash_cache).cache
    /\ UNCHANGED <<tokens, service, digest_cache, scramble_cache, cracklib_MIN_LENGTH>>

\* the thread is free for the next login
ThreadDone(t) ==
    /\ call.op = "check_hash"
    /\ call.threads[t].pc = "returned"
    /\ call' = [call EXCEPT !.threads[t] = IdleThread]
    /\ UNCHANGED <<tokens, service, caches, cracklib_MIN_LENGTH>>

NextCache ==
    \E t \in Threads : ThreadLookup(t) \/ ThreadVerify(t) \/ ThreadDone(t)

SpecCache == InitCache /\ [][NextCache]_vars

(***************************************************************************)
(* SpecRepeat: a daemon whose configuration and whose strict_policy and    *)
(* allow_legacy flags are the same for every check_hash call, all calls    *)
(* sharing one cache. seen keeps the secrets presented so far.             *)
(***************************************************************************)
InitRepeat ==
    /\ service = "webdavs"
    /\ hash_cache = EmptyCache
    /\ digest_cache = EmptyCache
    /\ scramble_cache = EmptyCache
    /\ cracklib_MIN_LENGTH = -1
    /\ skip_fields_default = <<>>
    /\ first_token = NoToken
    /\ \E c \in VerifyConfigurations, strict_policy \in BOOLEAN, allow_legacy \in BOOLEAN :
          call = [op |-> "none", state |-> "idle",
                  fixed |-> [configuration |-> c, strict_policy |-> strict_policy, allow_legacy |-> allow_legacy],
                  seen |-> {}]

RepeatCheckHash ==
    /\ "fixed" \in DOMAIN call
    /\ call.state = "idle"
    /\ \E pw \in VerifyPasswords, hashed \in StoredHashes :
          LET out == check_hash(call.fixed.configuration, TRUE, pw, hashed,
                                TRUE, hash_cache, call.fixed.strict_policy,
                                call.fixed.allow_legacy)
          IN  /\ call' = [op |-> "check_hash", state |-> "returned",
                          fixed |-> call.fixed,
                          seen |-> call.seen \cup {pw},
                          args |-> [configuration |-> call.fixed.configuration,
                                    password |-> pw, stored |-> hashed,
                                    salt |-> NoSalt, has_cache |-> TRUE,
                                    strict_policy |-> call.fixed.strict_policy,
                                    allow_legacy |-> call.fixed.allow_legacy],
                          pre |-> hash_cache, ret |-> Seen(out)]
              /\ hash_cache' = out.cache
              /\ cracklib_MIN_LENGTH' = MinLengthAfter(out.min_length)
    /\ UNCHANGED <<tokens, service, digest_cache, scramble_cache>>

RepeatNext ==
    /\ "fixed" \in DOMAIN call
    /\ call.state = "returned"
    /\ call' = [op |-> "none", state |-> "idle", fixed |-> call.fixed,
                seen |-> call.seen]
    /\ UNCHANGED <<tokens, service, caches, cracklib_MIN_LENGTH>>

NextRepeat == RepeatCheckHash \/ RepeatNext

SpecRepeat == InitRepeat /\ [][NextRepeat]_vars

(***************************************************************************)
(* SpecTail: the tail operation of functionality/tail.py on one readable   *)
(* file (lines 119-152). The file is its sequence of characters, pos is    *)
(* the offset of the file object (tell), one step per pass of a loop.      *)
(***************************************************************************)
MaxFileLen == 5

MaxLines == 3

FileChars == {"x", "\n"}

FileContents == SeqsUpTo(FileChars, MaxFileLen)

\* the offset after filedes.readline() at offset pos
RECURSIVE ReadLineEnd(_, _)
ReadLineEnd(content, pos) ==
    IF pos >= Len(content) THEN pos
    ELSE IF content[pos + 1] = "\n" THEN pos + 1
    ELSE ReadLineEnd(content, pos + 1)

\* len(filedes.readlines()) at offset pos
RECURSIVE ReadLinesCount(_, _)
ReadLinesCount(content, pos) ==
    IF pos >= Len(content) THEN 0
    ELSE 1 + ReadLinesCount(content, ReadLineEnd(content, pos))

\* str.strip()
RECURSIVE LStrip(_)
LStrip(line) ==
    IF line # <<>> /\ Head(line) \in {" ", "\n", "\t"} THEN LStrip(Tail(line))
    ELSE line

RECURSIVE RStrip(_)
RStrip(line) ==
    IF line # <<>> /\ line[Len(line)] \in {" ", "\n", "\t"}
    THEN RStrip(SubSeq(line, 1, Len(line) - 1))
    ELSE line

Strip(line) == RStrip(LStrip(line))

\* backstep after line 128-130
BackstepNext(backstep, length) ==
    IF backstep * 2 > length THEN length ELSE backstep * 2

\* lines 119-126: the file opened, the offset at its end
InitTail ==
    /\ service = "tail"
    /\ hash_cache = EmptyCache
    /\ digest_cache = EmptyCache
    /\ scramble_cache = EmptyCache
    /\ cracklib_MIN_LENGTH = -1
    /\ skip_fields_default = <<>>
    /\ first_token = NoToken
    /\ \E content \in FileContents, lines \in 0..MaxLines :
          call = [op |-> "tail", state |-> "backtrack",
                  args |-> [content |-> content, lines |-> lines],
                  length |-> Len(content), backstep |-> 1, newlines |-> 0,
                  pos |-> Len(content), emitted |-> 0, output_lines |-> <<>>]

\* the loop condition of line 127
Backtracking ==
    call.backstep < call.length /\ call.newlines <= call.args.lines

\* lines 127-132: one pass of the backtracking loop
TailBacktrack ==
    /\ call.op = "tail"
    /\ call.state = "backtrack"
    /\ Backtracking
    /\ call' = [call EXCEPT
                  !.backstep = BackstepNext(@, call.length),
                  !.newlines = ReadLinesCount(call.args.content, call.length - BackstepNext(call.backstep, call.length)),
                  !.pos = call.length]
    /\ UNCHANGED <<tokens, service, caches, cracklib_MIN_LENGTH>>

\* lines 133-137: the loop is left, back to where the last read began
TailRewind ==
    /\ call.op = "tail"
    /\ call.state = "backtrack"
    /\ ~Backtracking
    /\ call' = [call EXCEPT
                  !.pos = IF call.length # 0 THEN call.length - call.backstep
                          ELSE @,
                  !.state = "skip"]
    /\ UNCHANGED <<tokens, service, caches, cracklib_MIN_LENGTH>>

\* lines 142-144: one extra line read and dropped
TailSkip ==
    /\ call.op = "tail"
    /\ call.state = "skip"
    /\ call.newlines > call.args.lines
    /\ call' = [call EXCEPT
                  !.pos = ReadLineEnd(call.args.content, @),
                  !.newlines = @ - 1]
    /\ UNCHANGED <<tokens, service, caches, cracklib_MIN_LENGTH>>

\* line 145
TailSkipDone ==
    /\ call.op = "tail"
    /\ call.state = "skip"
    /\ call.newlines <= call.args.lines
    /\ call' = [call EXCEPT !.backstep = call.length - call.pos,
                            !.state = "emit"]
    /\ UNCHANGED <<tokens, service, caches, cracklib_MIN_LENGTH>>

\* lines 149-151: one line read, stripped and appended
TailEmit ==
    /\ call.op = "tail"
    /\ call.state = "emit"
    /\ call.emitted < call.newlines
    /\ call' = [call EXCEPT
                  !.output_lines = Append(@, Strip(SubSeq(call.args.content, call.pos + 1, ReadLineEnd(call.args.content, call.pos)))),
                  !.pos = ReadLineEnd(call.args.content, @),
                  !.emitted = @ + 1]
    /\ UNCHANGED <<tokens, service, caches, cracklib_MIN_LENGTH>>

\* line 152 and 161-166: the lines handed to the output
TailReturn ==
    /\ call.op = "tail"
    /\ call.state = "emit"
    /\ call.emitted >= call.newlines
    /\ call' = [call EXCEPT !.state = "returned"]
    /\ UNCHANGED <<tokens, service, caches, cracklib_MIN_LENGTH>>

NextTail ==
    \/ TailBacktrack
    \/ TailRewind
    \/ TailSkip
    \/ TailSkipDone
    \/ TailEmit
    \/ TailReturn

SpecTail == InitTail /\ [][NextTail]_vars

(***************************************************************************)
(* SpecCompare: the comparison loop of check_hash (lines 136-141), one     *)
(* pass of the loop per step, over keys given byte by byte.                *)
(***************************************************************************)
\* byte values the keys are made of
KeyBytes == {0, 1, 128}

\* x ^ y and x | y on byte values
ByteXor(x, y) ==
    BitXor(x, y, 1) + BitXor(x, y, 2) + BitXor(x, y, 4) + BitXor(x, y, 8)
    + BitXor(x, y, 16) + BitXor(x, y, 32) + BitXor(x, y, 64) + BitXor(x, y, 128)

BitOr(x, y, k) == (IF (x \div k) % 2 = 1 \/ (y \div k) % 2 = 1 THEN 1 ELSE 0) * k

ByteOr(x, y) ==
    BitOr(x, y, 1) + BitOr(x, y, 2) + BitOr(x, y, 4) + BitOr(x, y, 8)
    + BitOr(x, y, 16) + BitOr(x, y, 32) + BitOr(x, y, 64) + BitOr(x, y, 128)

\* diff |= ord(char_a) ^ ord(char_b)
DiffAfter(diff, char_a, char_b) == ByteOr(diff, ByteXor(char_a, char_b))

\* a loop that stops at the first difference
ZipNext_EarlyExit(i, diff, n) == IF diff # 0 THEN n ELSE i + 1

\* the for loop over zip(hash_a, hash_b): the pair looked at after pair i,
\* whatever diff is by then
ZipNext(i, diff, n) == i + 1

\* hash_a and hash_b of equal length, as line 135 asserts
InitCompare ==
    /\ service = "webdavs"
    /\ hash_cache = EmptyCache
    /\ digest_cache = EmptyCache
    /\ scramble_cache = EmptyCache
    /\ cracklib_MIN_LENGTH = -1
    /\ skip_fields_default = <<>>
    /\ first_token = NoToken
    /\ \E n \in 0..MaxKeyLen :
         \E hash_a \in SeqsOfLen(KeyBytes, n), hash_b \in SeqsOfLen(KeyBytes, n) :
            call = [op |-> "compare", state |-> "pending",
                    args |-> [hash_a |-> hash_a, hash_b |-> hash_b],
                    i |-> 0, diff |-> 0, ops |-> 0, visited |-> {},
                    ret |-> NoReturn]

\* one pass of the loop: one xor and one or on the bytes of pair i + 1
CompareStep ==
    /\ call.op = "compare"
    /\ call.state = "pending"
    /\ call.i < Len(call.args.hash_a)
    /\ call' = [call EXCEPT
          !.diff = DiffAfter(call.diff, call.args.hash_a[call.i + 1],
                             call.args.hash_b[call.i + 1]),
          !.ops = @ + 1,
          !.visited = @ \cup {call.i + 1},
          !.i = ZipNext(call.i,
                        DiffAfter(call.diff, call.args.hash_a[call.i + 1],
                                  call.args.hash_b[call.i + 1]),
                        Len(call.args.hash_a))]
    /\ UNCHANGED <<tokens, service, caches, cracklib_MIN_LENGTH>>

\* match = (diff == 0)
CompareFinish ==
    /\ call.op = "compare"
    /\ call.state = "pending"
    /\ call.i >= Len(call.args.hash_a)
    /\ call' = [call EXCEPT !.state = "returned",
                            !.ret = [match |-> call.diff = 0]]
    /\ UNCHANGED <<tokens, service, caches, cracklib_MIN_LENGTH>>

NextCompare == CompareStep \/ CompareFinish

SpecCompare == InitCompare /\ [][NextCompare]_vars

(***************************************************************************)
(* SpecToken: a process issuing CSRF tokens, one request after the other.  *)
(***************************************************************************)
TokenSalts == {<<1, 15>>}

TokenMethods == {<<"A">>}

TokenOperations == {<<"r">>}

ClientIds == {<<"u">>}

\* the limit argument: left at its default None, a time stamp, or the text
\* 'None'
TokenLimits == {None, <<"1">>, <<"N", "o", "n", "e">>}

ArgKeys == {<<"a">>, <<"b">>}

ArgValueLists == {<<<<"1">>>>, <<<<"2">>>>}

ArgEntries == [key : ArgKeys, vals : ArgValueLists]

\* query argument dicts with up to two keys, in every insertion order
ArgumentMaps ==
    {m \in SeqsUpTo(ArgEntries, 2) :
        \A i, j \in 1..Len(m) : i # j => m[i].key # m[j].key}

\* skip_fields as passed by the caller
SkipLists == {<<>>, <<<<"a">>>>, <<<<"b">>>>}

InitToken ==
    /\ service = "cgi"
    /\ hash_cache = EmptyCache
    /\ digest_cache = EmptyCache
    /\ scramble_cache = EmptyCache
    /\ cracklib_MIN_LENGTH = -1
    /\ skip_fields_default = <<>>
    /\ first_token = NoToken
    /\ call = IdleCall

\* what is kept of a call: the function, its inputs and what it returned
Issued(op, args, ret) == [op |-> op, args |-> args, ret |-> ret]

\* make_csrf_token called and returned
IssueCsrfToken ==
    /\ service = "cgi"
    /\ call.state = "idle"
    /\ \E salt \in TokenSalts, method \in TokenMethods,
          operation \in TokenOperations, client_id \in ClientIds,
          limit \in TokenLimits :
          LET args == [site_digest_salt |-> salt, method |-> method,
                       operation |-> operation, args |-> <<>>,
                       client_id |-> client_id, limit |-> limit,
                       skip_given |-> FALSE, skip_fields |-> <<>>]
              ret == [token |-> make_csrf_token(salt, method, operation,
                                               client_id, limit),
                      hashed |-> CsrfXorId(salt, method, operation,
                                           client_id, limit)]
          IN  /\ call' = [op |-> "make_csrf_token", state |-> "returned",
                          args |-> args, ret |-> ret,
                          after_first |-> first_token # NoToken]
              /\ first_token' = IF first_token = NoToken
                                THEN Issued("make_csrf_token", args, ret)
                                ELSE first_token
    /\ UNCHANGED <<service, caches, cracklib_MIN_LENGTH, skip_fields_default>>

\* make_csrf_trust_token called and returned; without a skip_fields argument
\* the list object of the default is the one that is read
IssueTrustToken ==
    /\ service = "cgi"
    /\ call.state = "idle"
    /\ \E salt \in TokenSalts, method \in TokenMethods,
          operation \in TokenOperations, a \in ArgumentMaps,
          client_id \in ClientIds, limit \in TokenLimits,
          skip_given \in BOOLEAN, skip_list \in SkipLists :
          LET skip_fields == IF skip_given THEN skip_list
                             ELSE skip_fields_default
              args == [site_digest_salt |-> salt, method |-> method,
                       operation |-> operation, args |-> a,
                       client_id |-> client_id, limit |-> limit,
                       skip_given |-> skip_given,
                       skip_fields |-> IF skip_given THEN skip_list ELSE <<>>]
              ret == [token |-> make_csrf_trust_token(salt, method, operation,
                                    a, client_id, limit, skip_fields),
                      hashed |-> CsrfXorId(salt, method,
                                           CsrfOp(operation, a, skip_fields),
                                           client_id, limit)]
          IN  /\ (skip_given \/ skip_list = <<>>)
              /\ call' = [op |-> "make_csrf_trust_token", state |-> "returned",
                          args |-> args, ret |-> ret,
                          after_first |-> first_token # NoToken]
              /\ first_token' = IF first_token = NoToken
                                THEN Issued("make_csrf_trust_token", args, ret)
                                ELSE first_token
              /\ skip_fields_default' =
                    SkipDefaultAfter(skip_fields_default, a, skip_fields)
    /\ UNCHANGED <<service, caches, cracklib_MIN_LENGTH>>

\* the next request comes in
NextRequest ==
    /\ service = "cgi"
    /\ call.state = "returned"
    /\ call' = IdleCall
    /\ UNCHANGED <<tokens, service, caches, cracklib_MIN_LENGTH>>

NextToken == IssueCsrfToken \/ IssueTrustToken \/ NextRequest

SpecToken == InitToken /\ [][NextToken]_vars

(***************************************************************************)
(* Spec: login daemons calling the check functions with their cache.       *)
(***************************************************************************)
Init ==
    /\ service \in {"webdavs", "davs_digest", "openid"}
    /\ hash_cache = EmptyCache
    /\ digest_cache = EmptyCache
    /\ scramble_cache = EmptyCache
    /\ cracklib_MIN_LENGTH = -1
    /\ skip_fields_default = <<>>
    /\ first_token = NoToken
    /\ call = IdleCall

\* one login checked with check_hash; pre is the cache as it was handed in
CheckHash ==
    /\ service = "webdavs"
    /\ call.state = "idle"
    /\ \E c \in VerifyConfigurations, pw \in VerifyPasswords,
          hashed \in StoredHashes, has_cache \in BOOLEAN,
          strict_policy \in BOOLEAN, allow_legacy \in BOOLEAN :
          LET out == check_hash(c, TRUE, pw, hashed, has_cache, hash_cache,
                                strict_policy, allow_legacy)
          IN  /\ call' = [op |-> "check_hash", state |-> "returned",
                          args |-> [configuration |-> c, password |-> pw,
                                    stored |-> hashed, salt |-> NoSalt,
                                    has_cache |-> has_cache,
                                    strict_policy |-> strict_policy,
                                    allow_legacy |-> allow_legacy],
                          pre |-> hash_cache, ret |-> Seen(out)]
              /\ hash_cache' = out.cache
              /\ cracklib_MIN_LENGTH' = MinLengthAfter(out.min_length)
    /\ UNCHANGED <<tokens, service, digest_cache, scramble_cache>>

CheckDigest ==
    /\ service = "davs_digest"
    /\ call.state = "idle"
    /\ \E c \in VerifyConfigurations, pw \in VerifyPasswords,
          digest \in StoredDigests, salt \in DigestSalts,
          has_cache \in BOOLEAN, strict_policy \in BOOLEAN,
          allow_legacy \in BOOLEAN :
          LET out == check_digest(c, TRUE, Realm, Username, pw, digest, salt,
                                  has_cache, digest_cache, strict_policy,
                                  allow_legacy)
          IN  /\ call' = [op |-> "check_digest", state |-> "returned",
                          args |-> [configuration |-> c, password |-> pw,
                                    stored |-> digest, salt |-> salt,
                                    has_cache |-> has_cache,
                                    strict_policy |-> strict_policy,
                                    allow_legacy |-> allow_legacy],
                          pre |-> digest_cache, ret |-> Seen(out)]
              /\ digest_cache' = out.cache
              /\ cracklib_MIN_LENGTH' = MinLengthAfter(out.min_length)
    /\ UNCHANGED <<tokens, service, hash_cache, scramble_cache>>

CheckScramble ==
    /\ service = "openid"
    /\ call.state = "idle"
    /\ \E c \in VerifyConfigurations, pw \in VerifyPasswords,
          scrambled \in StoredScrambles, salt \in ScrambleSalts,
          has_cache \in BOOLEAN, strict_policy \in BOOLEAN,
          allow_legacy \in BOOLEAN :
          LET out == check_scramble(c, TRUE, pw, scrambled, salt, has_cache,
                                    scramble_cache, strict_policy, allow_legacy)
          IN  /\ call' = [op |-> "check_scramble", state |-> "returned",
                          args |-> [configuration |-> c, password |-> pw,
                                    stored |-> scrambled, salt |-> salt,
                                    has_cache |-> has_cache,
                                    strict_policy |-> strict_policy,
                                    allow_legacy |-> allow_legacy],
                          pre |-> scramble_cache, ret |-> Seen(out)]
              /\ scramble_cache' = out.cache
              /\ cracklib_MIN_LENGTH' = MinLengthAfter(out.min_length)
    /\ UNCHANGED <<tokens, service, hash_cache, digest_cache>>

\* the caller has taken the result and is ready for the next login
NextLogin ==
    /\ call.state = "returned"
    /\ service # "policy"
    /\ call' = IdleCall
    /\ UNCHANGED <<tokens, service, caches, cracklib_MIN_LENGTH>>

Next == CheckHash \/ CheckDigest \/ CheckScramble \/ NextLogin

Spec == Init /\ [][Next]_vars

(***************************************************************************)
(* Properties of the policy engine.                                        *)
(***************************************************************************)
Returned(op) == call.op = op /\ call.state = "returned"

\* what the claims call the class of a character and the coverage of a secret
CharClassOf(c) ==
    IF c \in ascii_lowercase THEN "lower"
    ELSE IF c \in ascii_uppercase THEN "upper"
    ELSE IF c \in digits THEN "digit"
    ELSE "other"

ClassCoverage(s) == Cardinality({CharClassOf(s[k]) : k \in 1..Len(s)})

PrimaryRequirement == password_requirements(call.args.configuration.site_password_policy)

LegacyRequirement ==
    password_requirements(call.args.configuration.site_password_legacy_policy)

\* the primary policy alone decides: no fallback is open to the call
PrimaryOnly ==
    \/ ~call.args.allow_legacy
    \/ call.args.configuration.site_password_legacy_policy = EmptyStr

\* C5: for every policy descriptor P (a parsed pair with min_len >= 0) and
\* every secret s, with no external strength checker configured, validation
\* of s under P succeeds iff len(s) >= P.min_len and s touches at least
\* P.min_classes of the classes lower, upper, digit, other.
C5_ValidateIffLenAndClasses ==
    (/\ Returned("assure_password_strength")
     /\ ~call.args.configuration.site_password_cracklib
     /\ PrimaryOnly
     /\ PrimaryRequirement.errors = <<>>
     /\ PrimaryRequirement.min_len >= 0)
    => (call.ret.exc = "none"
        <=> /\ Len(call.args.password) >= PrimaryRequirement.min_len
            /\ ClassCoverage(call.args.password) >= PrimaryRequirement.min_classes)

\* a three-class secret accepted under custom:3:3
C5_Witness ==
    /\ Returned("assure_password_strength")
    /\ ~call.args.configuration.site_password_cracklib
    /\ PrimaryOnly
    /\ call.args.configuration.site_password_policy = CustomPolicy(3, 3)
    /\ call.args.password = <<"a", "A", "1">>
    /\ call.ret.exc = "none"

\* the grammar of policy strings: none | weak | medium | high | modern:<N> |
\* custom:<N>:<M>, N and M integers
IsModernString(p) ==
    /\ Len(Split(p, ":", Len(p))) = 2
    /\ Split(p, ":", Len(p))[1] = POLICY_MODERN
    /\ IsIntStr(Split(p, ":", Len(p))[2])

IsCustomString(p) ==
    /\ Len(Split(p, ":", Len(p))) = 3
    /\ Split(p, ":", Len(p))[1] = POLICY_CUSTOM
    /\ IsIntStr(Split(p, ":", Len(p))[2])
    /\ IsIntStr(Split(p, ":", Len(p))[3])

ExpectedRequirement(p) ==
    IF p = POLICY_NONE THEN Requirement(0, 0, <<>>)
    ELSE IF p = POLICY_WEAK THEN Requirement(6, 2, <<>>)
    ELSE IF p = POLICY_MEDIUM THEN Requirement(8, 3, <<>>)
    ELSE IF p = POLICY_HIGH THEN Requirement(10, 4, <<>>)
    ELSE IF IsModernString(p)
    THEN Requirement(IntOf(Split(p, ":", Len(p))[2]), 1, <<>>)
    ELSE Requirement(IntOf(Split(p, ":", Len(p))[2]),
                     IntOf(Split(p, ":", Len(p))[3]), <<>>)

InGrammar(p) ==
    \/ p \in {POLICY_NONE, POLICY_WEAK, POLICY_MEDIUM, POLICY_HIGH}
    \/ IsModernString(p)
    \/ IsCustomString(p)

\* C6: password_requirements maps none, weak, medium, high, modern:<N> and
\* custom:<N>:<M> to (0,0), (6,2), (8,3), (10,4), (N,1) and (N,M); every
\* other policy string yields an error and no usable pair.
C6_ParseTable ==
    Returned("password_requirements")
    => IF InGrammar(call.args.site_policy)
       THEN call.ret = ExpectedRequirement(call.args.site_policy)
       ELSE /\ call.ret.errors # <<>>
            /\ PolicyOutOfRange(call.ret.min_len, call.ret.min_classes)

\* C7: a policy pair that validation applies to a secret and accepts it
\* under satisfies min_len >= 0 and 0 <= min_classes <= 4.
C7_AcceptedPairInRange ==
    (/\ Returned("assure_password_strength")
     /\ call.ret.exc = "none"
     /\ ~call.ret.legacy_checked)
    => /\ PrimaryRequirement.min_len >= 0
       /\ PrimaryRequirement.min_classes >= 0
       /\ PrimaryRequirement.min_classes <= 4

\* the outcome of validating the call's secret against one policy alone
PrimaryVerdict ==
    assure_password_strength_helper(call.args.configuration, call.args.cracklib,
                                    call.args.password, FALSE)

LegacyVerdict ==
    assure_password_strength_helper(call.args.configuration, call.args.cracklib,
                                    call.args.password, TRUE)

MentionsLegacy(log) ==
    \E k \in 1..Len(log) : log[k].msg.policy = "password legacy policy"

\* C8: a secret the primary policy rejects is re-checked against the legacy
\* policy iff a non-empty legacy policy is configured and allow_legacy is
\* true, and is then accepted iff it satisfies the legacy policy; otherwise
\* the primary rejection is raised and the legacy policy is not consulted.
C8_LegacyFallback ==
    (/\ Returned("assure_password_strength")
     /\ PrimaryVerdict.exc = "ValueError")
    => /\ call.ret.legacy_checked
            <=> (/\ call.args.configuration.site_password_legacy_policy # EmptyStr
                 /\ call.args.allow_legacy)
       /\ call.ret.legacy_checked
            => (call.ret.exc = "none" <=> LegacyVerdict.exc = "none")
       /\ ~call.ret.legacy_checked
            => /\ call.ret.exc = "ValueError"
               /\ call.ret.msg = PrimaryVerdict.msg
               /\ call.ret.msg.policy = "password policy"
               /\ ~MentionsLegacy(call.ret.log)

\* "abc123"-like case: rejected by custom:2:2, accepted through modern:1
C8_Witness ==
    /\ Returned("assure_password_strength")
    /\ call.args.configuration.site_password_policy = CustomPolicy(2, 2)
    /\ call.args.configuration.site_password_legacy_policy = ModernPolicy(1)
    /\ call.args.allow_legacy
    /\ call.args.password = <<"a">>
    /\ call.ret.legacy_checked
    /\ call.ret.exc = "none"

Logged(level, msg) ==
    \E k \in 1..Len(call.ret.log) :
        call.ret.log[k].level = level /\ call.ret.log[k].msg = msg

C10_NoWeakerDefault ==
    (/\ call.state = "returned"
     /\ call.op \in {"assure_password_strength", "generate_random_password"}
     /\ ~InGrammar(call.args.configuration.site_password_policy))
    => call.ret.exc # "none"

\* cracklib is asked for in the configuration and the import failed
CracklibMissing ==
    /\ call.args.configuration.site_password_cracklib
    /\ ~call.args.cracklib

\* the secret of the call meets the length and class numbers of a usable pair
MeetsPair(req) ==
    /\ ~PolicyOutOfRange(req.min_len, req.min_classes)
    /\ Len(call.args.password) >= req.min_len
    /\ Len(PwClasses(call.args.password)) >= req.min_classes

ColdCheckReturned ==
    /\ call.state = "returned"
    /\ call.op \in {"check_hash", "check_digest", "check_scramble"}
    /\ ~call.args.has_cache

\* C11: with cracklib enabled in the configuration but not importable no
\* secret is accepted: assure_password_strength raises (the configuration
\* error as soon as the secret meets the numbers of the primary or, on the
\* fallback, of the legacy policy), valid_login_password returns False, a
\* check function with strict_policy and no cache returns False, and
\* generate_random_password returns no secret.
C11_MissingCracklibNeverAccepts ==
    (call.state = "returned" /\ CracklibMissing)
    => /\ call.op = "assure_password_strength"
            => /\ call.ret.exc # "none"
               /\ call.ret.exc = "Exception"
                    => call.ret.msg.kind \in {"cracklib_unavailable", "parse_failed"}
               /\ call.ret.exc = "ValueError"
                    => call.ret.msg.kind \in {"too_short", "too_simple"}
               /\ MeetsPair(PrimaryRequirement)
                    => /\ call.ret.exc = "Exception"
                       /\ call.ret.msg = Message(FALSE, "cracklib_unavailable", 0)
               /\ (call.ret.legacy_checked /\ MeetsPair(LegacyRequirement))
                    => /\ call.ret.exc = "Exception"
                       /\ call.ret.msg = Message(TRUE, "cracklib_unavailable", 0)
       /\ call.op = "valid_login_password" => ~call.ret.result
       /\ call.op = "generate_random_password" => call.ret.exc # "none"
       /\ (ColdCheckReturned /\ call.args.strict_policy)
            => /\ ~call.ret.result
               /\ call.ret.path = "policy_reject"

\* the primary policy rejects the secret, the legacy policy would take it,
\* and the fallback ends in the configuration error
C11_Witness ==
    /\ Returned("assure_password_strength")
    /\ CracklibMissing
    /\ call.args.allow_legacy
    /\ call.ret.legacy_checked
    /\ MeetsPair(LegacyRequirement)
    /\ call.ret.exc = "Exception"
    /\ call.ret.msg = Message(TRUE, "cracklib_unavailable", 0)

\* the verdict of assure_password_strength on the last secret the generator
\* drew, under the primary policy (allow_legacy left at False)
LastDrawVerdict ==
    assure_password_strength(call.args.configuration, call.args.cracklib,
                             call.password, FALSE)

\* C20: generate_random_password returns a secret only if that secret
\* passed assure_password_strength under the primary policy in the attempt
\* that drew it; when the tries are used up without such a draw it raises
\* ValueError and returns nothing.
C20_GeneratedSecretFitsPolicy ==
    Returned("generate_random_password")
    => /\ call.i <= call.args.tries
       /\ call.ret.exc = "none"
            => /\ call.i >= 1
               /\ LastDrawVerdict.exc = "none"
               /\ ~LastDrawVerdict.legacy_checked
       /\ (call.i = 0 \/ LastDrawVerdict.exc = "ValueError")
            => /\ call.i = call.args.tries
               /\ call.ret.exc = "ValueError"
               /\ call.ret.msg.kind = "failed_to_generate"

\* every try drew a secret the policy refused
C20_Witness ==
    /\ Returned("generate_random_password")
    /\ call.args.tries = MaxTries
    /\ call.i = MaxTries
    /\ LastDrawVerdict.exc = "ValueError"
    /\ call.ret.exc = "ValueError"

\* C21: generate_random_password comes to an end after at most tries
\* draw-and-validate attempts (42 by default) under every policy, also one
\* that no draw can satisfy; with tries = 0 it makes no attempt and raises.
C21_GenerateTerminates ==
    /\ [](call.i <= call.args.tries)
    /\ []((Returned("generate_random_password") /\ call.args.tries = 0)
            => (call.i = 0 /\ call.ret.exc = "ValueError"))
    /\ <>Returned("generate_random_password")

\* custom:1:2 asks for two classes in one character: all 42 tries are used
C21_Witness ==
    /\ Returned("generate_random_password")
    /\ call.args.configuration.site_password_policy = CustomPolicy(1, 2)
    /\ call.args.tries = DefaultTries
    /\ call.i = DefaultTries
    /\ call.ret.exc = "ValueError"
    /\ call.ret.msg.kind = "failed_to_generate"

(***************************************************************************)
(* Properties of check_hash called without a cache.                        *)
(***************************************************************************)
\* pbkdf2_bin returned a key of the length it was asked for
\* C22: unscrambling what scramble_password made of a secret, with the same
\* salt, returns exactly the secret: for every salt, also none, and every
\* secret, also the empty one and one whose first byte is below 0x10
C22_ScrambleRoundTrip ==
    Returned("unscramble_password")
        => (call.ret.exc = "none" /\ call.ret.value = call.args.password)

\* the result of the same call made alone
AloneResult(th) ==
    assure_password_strength(th.configuration, TRUE, th.password, th.allow_legacy)

\* C23: a call of assure_password_strength running next to another one,
\* with the strength checker enabled and no lock, returns what it returns
\* when run alone: the threshold one call sets is not used by the other.
C23_ConcurrentCallsAsAlone ==
    \A t \in Threads :
        (call.op = "assure_password_strength" /\ call.threads[t].pc = "returned")
        => /\ call.threads[t].ret.exc = AloneResult(call.threads[t]).exc
           /\ call.threads[t].ret.msg = AloneResult(call.threads[t]).msg

\* a stored string some secret with this fingerprint hashes to
ConfirmedEntry(key, hashed) ==
    \E pw \in VerifyPasswords :
        /\ Md5(pw) = key
        /\ Len(hashed) = 5
        /\ hashed[1] = "PBKDF2"
        /\ HashMatches(pw, hashed)

\* C24: with get and put each atomic, whatever the interleaving of the
\* check_hash calls of two threads on one cache, every entry of the cache
\* maps the fingerprint of a secret to a stored value this secret matches.
C24_SharedCacheSound ==
    service = "webdavs"
        => \A key \in DOMAIN hash_cache : ConfirmedEntry(key, hash_cache[key])

\* a thread between its get and its put, the other thread having put the
\* same pair meanwhile, next to a second entry
C24_Witness ==
    /\ call.op = "check_hash"
    /\ "threads" \in DOMAIN call
    /\ call.threads[1].pc = "missed"
    /\ HashCacheHit(TRUE, hash_cache, call.threads[1].password, call.threads[1].stored)
    /\ call.threads[2].pc = "returned"
    /\ call.threads[2].ret.path = "compared"
    /\ call.threads[2].ret.result
    /\ Cardinality(DOMAIN hash_cache) = 2

\* the policy check of the returned verify call failed
ColdPolicyViolated ==
    assure_password_strength(call.args.configuration, call.args.cracklib,
                             call.args.password, call.args.allow_legacy).exc
        # "none"

\* the codec applied to what the call presented equals the stored value
ColdCodecMatch ==
    IF call.op = "check_digest"
    THEN make_digest(Realm, Username, call.args.password, call.args.salt)
             = call.args.stored
    ELSE make_scramble(call.args.password, call.args.salt) = call.args.stored

DerivedAsAsked == call.args.derived_len = RequestedKeyLength(call.args.stored)

\* check_hash called with its default arguments: hash_cache=None,
\* strict_policy=True, allow_legacy=False
HashCallDefaults ==
    /\ Returned("check_hash")
    /\ ~call.args.has_cache
    /\ call.args.strict_policy
    /\ ~call.args.allow_legacy
    /\ DerivedAsAsked

\* C12: for every secret s, check_hash called with default arguments on the
\* string make_hash(s) returned gives True.
C12_RoundTripDefaults ==
    (/\ HashCallDefaults
     /\ \E x \in HashSalts :
            call.args.stored = make_hash(call.args.password, x))
    => /\ call.ret.exc = "none"
       /\ call.ret.result

\* the stored string is a hash of the presented secret, made under the
\* current or under earlier module parameters
MadeFromSecret ==
    \E q \in OldParameters \cup {CurrentParameters} :
        call.args.stored = MakeHashUnder(q, call.args.password)

\* C13: check_hash derives the key again with the hash function, cost
\* factor, salt and key length of the stored string alone: whenever it gets
\* to the comparison it returns True exactly for the secret the stored
\* string was made from, whatever the module parameters were at that time
\* and are now.
C13_VerifiesByEmbeddedParameters ==
    (/\ Returned("check_hash")
     /\ DerivedAsAsked
     /\ call.ret.path = "compared")
    => (call.ret.result <=> MadeFromSecret)

\* a hash made with another hash function, cost factor, salt length and key
\* length than the current ones still verifies
C13_Witness ==
    /\ Returned("check_hash")
    /\ DerivedAsAsked
    /\ call.args.stored =
          MakeHashUnder(DerivationParameters("sha1", 1000, 8, 20),
                        call.args.password)
    /\ call.args.stored[2] # HASH_FUNCTION
    /\ call.args.stored[3] # COST_FACTOR
    /\ RequestedKeyLength(call.args.stored) # KEY_LENGTH
    /\ call.ret.path = "compared"
    /\ call.ret.result

\* the stored string has not five '$'-separated fields or not the tag PBKDF2
MalformedStored ==
    \/ Len(call.args.stored) # 5
    \/ call.args.stored[1] # "PBKDF2"

\* C14: a stored string with an unknown algorithm tag or a wrong number of
\* fields makes check_hash return False: no exception reaches the caller
\* and the secret is not accepted.
C14_MalformedStoredIsFalse ==
    (Returned("check_hash") /\ MalformedStored)
    => /\ call.ret.exc = "none"
       /\ ~call.ret.result

VerifyReturned ==
    /\ call.state = "returned"
    /\ call.op \in {"check_hash", "check_digest", "check_scramble"}

\* the cache of the running daemon
ServiceCache ==
    IF service = "webdavs" THEN hash_cache
    ELSE IF service = "davs_digest" THEN digest_cache
    ELSE scramble_cache

\* the key the call looks up: the fingerprint of the presented plaintext
CallKey ==
    IF call.op = "check_hash" THEN Md5(call.args.password)
    ELSE IF call.op = "check_digest"
    THEN Md5(JoinCreds(Realm, Username, call.args.password))
    ELSE call.args.password

\* does secret pw, encoded afresh with the parameters of the call, give the
\* stored value of the call
EncodesToStored(pw) ==
    IF call.op = "check_hash"
    THEN /\ Len(call.args.stored) = 5
         /\ call.args.stored[1] = "PBKDF2"
         /\ call.args.stored = make_hash(pw, call.args.stored[4])
    ELSE IF call.op = "check_digest"
    THEN call.args.stored = make_digest(Realm, Username, pw, call.args.salt)
    ELSE /\ ~ScrambleFails(call.args.salt, pw)
         /\ call.args.stored = make_scramble(pw, call.args.salt)

SecretMatchesStored == EncodesToStored(call.args.password)

\* the same call made without a cache
ColdOutcome ==
    IF call.op = "check_hash"
    THEN check_hash(call.args.configuration, TRUE, call.args.password,
                    call.args.stored, FALSE, EmptyCache,
                    call.args.strict_policy, call.args.allow_legacy)
    ELSE IF call.op = "check_digest"
    THEN check_digest(call.args.configuration, TRUE, Realm, Username,
                      call.args.password, call.args.stored, call.args.salt,
                      FALSE, EmptyCache, call.args.strict_policy,
                      call.args.allow_legacy)
    ELSE check_scramble(call.args.configuration, TRUE, call.args.password,
                        call.args.stored, call.args.salt, FALSE, EmptyCache,
                        call.args.strict_policy, call.args.allow_legacy)

\* C1: check_hash, check_digest and check_scramble write a cache entry only
\* after the presented secret was found to match the stored value in that
\* call; a call that returns false, a call answered from the cache and a
\* call without a dict cache leave the cache as it was.
C1_CacheWrittenOnlyOnMatch ==
    VerifyReturned
    => /\ ServiceCache # call.pre
            => /\ call.args.has_cache
               /\ call.ret.result
               /\ call.ret.path = "compared"
               /\ SecretMatchesStored
               /\ ServiceCache = CachePut(call.pre, CallKey, call.args.stored)
       /\ (\/ ~call.ret.result
           \/ call.ret.path = "cache_hit"
           \/ ~call.args.has_cache)
            => ServiceCache = call.pre

\* a first successful login that left its entry in the cache
C1_Witness ==
    /\ VerifyReturned
    /\ call.args.has_cache
    /\ call.ret.result
    /\ call.ret.path = "compared"
    /\ call.pre = EmptyCache
    /\ ServiceCache # EmptyCache

\* C26: after a verification that took the cold path with a cache and
\* returned True, the cache maps the fingerprint of the secret to the
\* stored value of the call, in place of any earlier entry for it, and
\* holds every entry it held for another fingerprint, and no more.
C26_PutReplacesOneEntry ==
    (/\ VerifyReturned
     /\ call.args.has_cache
     /\ call.ret.path = "compared"
     /\ call.ret.result)
    => /\ DOMAIN ServiceCache = DOMAIN call.pre \cup {CallKey}
       /\ ServiceCache[CallKey] = call.args.stored
       /\ \A k \in DOMAIN call.pre \ {CallKey} : ServiceCache[k] = call.pre[k]

\* the fingerprint was cached for another stored value, next to an entry
\* for another fingerprint
C26_Witness ==
    /\ VerifyReturned
    /\ call.args.has_cache
    /\ call.ret.path = "compared"
    /\ call.ret.result
    /\ CallKey \in DOMAIN call.pre
    /\ call.pre[CallKey] # call.args.stored
    /\ DOMAIN call.pre # {CallKey}

\* no two of the secrets presented so far share a fingerprint
CollisionFree(secrets) ==
    \A s1, s2 \in secrets : Md5(s1) = Md5(s2) => s1 = s2

\* C27: in a sequence of check_hash calls on one cache, made under one
\* configuration with the same strict_policy and allow_legacy flags and
\* without two secrets of one fingerprint, every call returns (or raises)
\* what the same call returns without a cache.
C27_CacheIsOptimisation ==
    (/\ Returned("check_hash")
     /\ "seen" \in DOMAIN call
     /\ CollisionFree(call.seen))
    => /\ call.ret.result = ColdOutcome.result
       /\ call.ret.exc = ColdOutcome.exc

\* a login answered from the cache after logins with another secret
C27_Witness ==
    /\ Returned("check_hash")
    /\ "seen" \in DOMAIN call
    /\ CollisionFree(call.seen)
    /\ Cardinality(call.seen) = 2
    /\ call.ret.path = "cache_hit"
    /\ Cardinality(DOMAIN hash_cache) = 2

\* C28: check_digest and check_scramble return True only if the codec,
\* computed with the salt passed in this call, gives the stored value:
\* a pair confirmed under another salt earlier is not accepted for that.
C28_AcceptsOnlyUnderCallSalt ==
    ((Returned("check_digest") \/ Returned("check_scramble")) /\ call.ret.result)
    => SecretMatchesStored

\* C2: an entry for the call's fingerprint that points at another stored
\* value than the one the caller passes never validates the secret: the
\* call is a miss and is decided as the same call without a cache.
C2_OtherStoredValueIsMiss ==
    (/\ VerifyReturned
     /\ call.args.has_cache
     /\ CallKey \in DOMAIN call.pre
     /\ call.pre[CallKey] # call.args.stored)
    => /\ call.ret.path # "cache_hit"
       /\ call.ret = Seen(ColdOutcome)

\* the fingerprint is cached for one stored value and the call passes
\* another one, which the secret does not match
C2_Witness ==
    /\ VerifyReturned
    /\ call.args.has_cache
    /\ CallKey \in DOMAIN call.pre
    /\ call.pre[CallKey] # call.args.stored
    /\ call.ret.path = "compared"
    /\ ~call.ret.result

\* another secret with the fingerprint of the presented one matches the
\* stored value of the call
CollidingSecretMatches ==
    \E s1 \in VerifyPasswords :
        /\ s1 # call.args.password
        /\ EncodesToStored(s1)
        /\ IF call.op = "check_hash" THEN Md5(s1) = CallKey
           ELSE Md5(JoinCreds(Realm, Username, s1)) = CallKey

\* C3: when s1 # s2 share a fingerprint and s1 was cached against V, a
\* check of s2 against V is decided by full verification and returns false
\* when s2 does not match V.
C3_NoFalseAcceptOnCollision ==
    (/\ VerifyReturned
     /\ call.op \in {"check_hash", "check_digest"}
     /\ call.args.has_cache
     /\ CacheHolds(call.pre, CallKey, call.args.stored)
     /\ CollidingSecretMatches
     /\ ~SecretMatchesStored)
    => /\ call.ret.path # "cache_hit"
       /\ ~call.ret.result

\* C4: a call with strict_policy true returns true through a cache hit only
\* if the presented secret satisfies the configured policy (the primary
\* one, or the legacy one); a cached match does not bypass the policy.
C4_CacheHitRespectsPolicy ==
    (/\ VerifyReturned
     /\ call.args.strict_policy
     /\ call.ret.path = "cache_hit")
    => valid_login_password(call.args.configuration, TRUE, call.args.password)

(***************************************************************************)
(* Properties of the comparison loop.                                      *)
(***************************************************************************)
\* the or of the xor of every pair of bytes
RECURSIVE AccumulatedDiff(_, _)
AccumulatedDiff(a, b) ==
    IF a = <<>> THEN 0
    ELSE ByteOr(ByteXor(Head(a), Head(b)), AccumulatedDiff(Tail(a), Tail(b)))

\* C16: the comparison of two keys of equal length looks at every byte
\* index and does one byte operation per index, whatever the position of
\* the first differing byte, and reports equal iff the or of all byte
\* differences is 0.
C16_ConstantTimeCompare ==
    Returned("compare")
    => /\ call.visited = 1..Len(call.args.hash_a)
       /\ call.ops = Len(call.args.hash_a)
       /\ call.diff = AccumulatedDiff(call.args.hash_a, call.args.hash_b)
       /\ call.ret.match <=> call.diff = 0
       /\ call.ret.match <=> call.args.hash_a = call.args.hash_b

\* keys that differ in their first byte already, compared to the end
C16_Witness ==
    /\ Returned("compare")
    /\ Len(call.args.hash_a) = MaxKeyLen
    /\ call.args.hash_a[1] # call.args.hash_b[1]
    /\ call.ops = MaxKeyLen
    /\ ~call.ret.match

(***************************************************************************)
(* Properties of the CSRF tokens.                                          *)
(***************************************************************************)
TokenReturned ==
    /\ call.state = "returned"
    /\ call.op \in {"make_csrf_token", "make_csrf_trust_token"}

\* a trust token was issued first and the call returned one as well
BothTrustTokens ==
    /\ Returned("make_csrf_trust_token")
    /\ first_token.op = "make_csrf_trust_token"

\* the two calls agree in every input but the argument dict and skip_fields
SameTokenContext ==
    /\ first_token.args.site_digest_salt = call.args.site_digest_salt
    /\ first_token.args.method = call.args.method
    /\ first_token.args.operation = call.args.operation
    /\ first_token.args.client_id = call.args.client_id
    /\ first_token.args.limit = call.args.limit

\* a dict as the set of its items, and its keys
ItemsOf(m) == {m[k] : k \in 1..Len(m)}

KeySetOf(m) == {m[k].key : k \in 1..Len(m)}

ElementsOf(list) == {list[k] : k \in 1..Len(list)}

\* C17: make_csrf_token and make_csrf_trust_token are functions of their
\* inputs (salt, method, operation, arguments, client id, limit, skip
\* fields): a call with the inputs of the first call of the process returns
\* the token of the first call, whatever was issued in between, and no call
\* changes the default skip list.
C17_TokensDeterministic ==
    /\ skip_fields_default = <<>>
    /\ (/\ TokenReturned
        /\ first_token.op = call.op
        /\ first_token.args = call.args)
       => call.ret = first_token.ret

\* a later call repeats the inputs of the first one, a dict with two keys
C17_Witness ==
    /\ Returned("make_csrf_trust_token")
    /\ call.after_first
    /\ first_token.op = call.op
    /\ first_token.args = call.args
    /\ Len(call.args.args) = 2
    /\ ~call.args.skip_given
    /\ call.ret.token = first_token.ret.token

\* C18: two argument dicts with the same keys and the same value list per
\* key give the same trust token, whatever the order the keys were
\* inserted in.
C18_InsertionOrderIndependent ==
    (/\ BothTrustTokens
     /\ SameTokenContext
     /\ first_token.args.skip_fields = call.args.skip_fields
     /\ ItemsOf(first_token.args.args) = ItemsOf(call.args.args))
    => call.ret = first_token.ret

\* {"b": ["2"], "a": ["1"]} and {"a": ["1"], "b": ["2"]}
C18_Witness ==
    /\ BothTrustTokens
    /\ SameTokenContext
    /\ call.args.skip_fields = <<>>
    /\ first_token.args.skip_fields = <<>>
    /\ first_token.args.args = <<[key |-> <<"b">>, vals |-> <<<<"2">>>>],
                                 [key |-> <<"a">>, vals |-> <<<<"1">>>>]>>
    /\ call.args.args = <<[key |-> <<"a">>, vals |-> <<<<"1">>>>],
                          [key |-> <<"b">>, vals |-> <<<<"2">>>>]>>
    /\ call.ret.token = first_token.ret.token

\* the items of a dict whose key is not in skip_fields
UnskippedItems(m, skip_fields) ==
    {x \in ItemsOf(m) : x.key \notin ElementsOf(skip_fields)}

\* C19: keys in skip_fields are left out of the trust token: two dicts that
\* differ only in skipped keys or their values give the same token; and a
\* key of the dict that is not skipped is part of the hashed string, so
\* that skipping it as well changes the string.
C19_SkipFieldsExcluded ==
    (BothTrustTokens /\ SameTokenContext)
    => /\ (/\ ElementsOf(first_token.args.skip_fields)
                 = ElementsOf(call.args.skip_fields)
           /\ UnskippedItems(first_token.args.args, call.args.skip_fields)
                 = UnskippedItems(call.args.args, call.args.skip_fields))
          => call.ret = first_token.ret
       /\ (/\ first_token.args.args = call.args.args
           /\ ElementsOf(first_token.args.skip_fields)
                 \subseteq ElementsOf(call.args.skip_fields)
           /\ \E k \in KeySetOf(call.args.args) :
                 /\ k \in ElementsOf(call.args.skip_fields)
                 /\ k \notin ElementsOf(first_token.args.skip_fields))
          => call.ret.hashed # first_token.ret.hashed

\* "a" is skipped; one dict has it with another value, the other not at all
C19_Witness ==
    /\ BothTrustTokens
    /\ SameTokenContext
    /\ first_token.args.skip_fields = <<<<"a">>>>
    /\ call.args.skip_fields = <<<<"a">>>>
    /\ first_token.args.args = <<[key |-> <<"a">>, vals |-> <<<<"1">>>>],
                                 [key |-> <<"b">>, vals |-> <<<<"2">>>>]>>
    /\ call.args.args = <<[key |-> <<"b">>, vals |-> <<<<"2">>>>]>>
    /\ call.ret.token = first_token.ret.token

\* the returned call and the first call of the process differ in method,
\* operation, client id, limit, or in an argument that is not skipped
TokenRequestDiffers ==
    \/ first_token.args.method # call.args.method
    \/ first_token.args.operation # call.args.operation
    \/ first_token.args.client_id # call.args.client_id
    \/ first_token.args.limit # call.args.limit
    \/ UnskippedItems(first_token.args.args, first_token.args.skip_fields)
           # UnskippedItems(call.args.args, call.args.skip_fields)

\* C29: two requests that differ in method, operation, client id, limit or
\* in an argument key or value that is not skipped are never packed into
\* the same string to hash (limit None and the text 'None' included).
C29_CanonicalizationInjective ==
    (/\ TokenReturned
     /\ first_token.op = call.op
     /\ first_token.args.site_digest_salt = call.args.site_digest_salt
     /\ TokenRequestDiffers)
    => call.ret.hashed # first_token.ret.hashed

\* the lines of a file from offset pos on, without their line ends
RECURSIVE LinesFrom(_, _)
LinesFrom(content, pos) ==
    IF pos >= Len(content) THEN <<>>
    ELSE <<Strip(SubSeq(content, pos + 1, ReadLineEnd(content, pos)))>>
         \o LinesFrom(content, ReadLineEnd(content, pos))

\* the last n elements of a sequence, all of them if it has fewer
LastOf(seq, n) ==
    IF n >= Len(seq) THEN seq ELSE SubSeq(seq, Len(seq) - n + 1, Len(seq))

\* C30: tail of a readable file with N lines and a line count L >= 0 ends
\* its backtracking with backstep within the file and emits exactly the
\* last min(L, N) lines in file order, whatever the size of the file.
C30_TailEmitsLastLines ==
    /\ call.op = "tail" => call.backstep <= (IF call.length = 0 THEN 1 ELSE call.length)
    /\ Returned("tail")
         => call.output_lines = LastOf(LinesFrom(call.args.content, 0), call.args.lines)

====
